---- MODULE Spec2Model ----
(***************************************************************************)
(* Entity extraction and dialogue resolution of Revend-LLM-Api.            *)
(*                                                                         *)
(* A Python str is a sequence of one-character strings; an Optional[str]   *)
(* that is None is NoneVal; a dict is a function whose DOMAIN is its key   *)
(* set.                                                                    *)
(***************************************************************************)
EXTENDS Naturals, Integers, Sequences, FiniteSets, TLC

VARIABLES extractor, loads, store, pc, req, ret, nextId, turns, faults, lastCall, calls,
          ops

vars ==
    <<extractor, loads, store, pc, req, ret, nextId, turns, faults, lastCall, calls, ops>>

(***************************************************************************)
(* Characters and the str methods the code uses                            *)
(***************************************************************************)
NoneVal == <<"None">>

EmptyMap == [k \in {} |-> <<>>]

Digits == {"0", "1", "2", "3", "4", "5", "6", "7", "8", "9"}

LowerLetters == {"a", "b", "c", "d", "e", "f", "g", "h", "i", "j", "k", "l", "m",
                 "n", "o", "p", "q", "r", "s", "t", "u", "v", "w", "x", "y", "z"}

UpperToLower == [A |-> "a", B |-> "b", C |-> "c", D |-> "d", E |-> "e", F |-> "f",
                 G |-> "g", H |-> "h", I |-> "i", J |-> "j", K |-> "k", L |-> "l",
                 M |-> "m", N |-> "n", O |-> "o", P |-> "p", Q |-> "q", R |-> "r",
                 S |-> "s", T |-> "t", U |-> "u", V |-> "v", W |-> "w", X |-> "x",
                 Y |-> "y", Z |-> "z"]

UpperLetters == DOMAIN UpperToLower

\* U+0130 (capital I with dot above) and U+0307 (combining dot above):
\* str.lower() turns the first into "i" followed by the second.
CapIDot == "U+0130"

CombDot == "U+0307"

\* str.lower() of one character: a str, since lowering may lengthen the text
LowerChar(c) ==
    IF c \in UpperLetters THEN <<UpperToLower[c]>>
    ELSE IF c = CapIDot THEN <<"i", CombDot>>
    ELSE <<c>>

RECURSIVE lower(_)
lower(s) == IF s = <<>> THEN <<>> ELSE LowerChar(Head(s)) \o lower(Tail(s))

\* the simple case folding of re.IGNORECASE, one character to one character
FoldChar(c) ==
    IF c \in UpperLetters THEN UpperToLower[c]
    ELSE IF c = CapIDot THEN "i"
    ELSE c

\* \w of the re module
IsWordChar(c) == c \in LowerLetters \cup UpperLetters \cup Digits \cup {"_", CapIDot}

\* \d of the re module
IsDigit(c) == c \in Digits

\* \s of the re module, and the characters str.strip() removes
IsSpace(c) == c \in {" "}

\* text[a:b] of Python for 0 <= a: the slice is clipped to the text
Slice(s, a, b) == SubSeq(s, a + 1, IF b > Len(s) THEN Len(s) ELSE b)

\* needle in hay
Contains(hay, needle) ==
    \E i \in 0..(Len(hay) - Len(needle)) : Slice(hay, i, i + Len(needle)) = needle

\* hay.find(needle): the 0-based offset of the first occurrence, or -1
Find(hay, needle) ==
    LET hits == {i \in 0..(Len(hay) - Len(needle)) : Slice(hay, i, i + Len(needle)) = needle}
    IN  IF hits = {} THEN -1 ELSE CHOOSE i \in hits : \A j \in hits : i <= j

RECURSIVE lstrip(_)
lstrip(s) == IF s # <<>> /\ IsSpace(Head(s)) THEN lstrip(Tail(s)) ELSE s

RECURSIVE rstrip(_)
rstrip(s) ==
    IF s # <<>> /\ IsSpace(s[Len(s)]) THEN rstrip(SubSeq(s, 1, Len(s) - 1)) ELSE s

\* str.strip()
strip(s) == rstrip(lstrip(s))

\* bool(value) of an Optional[str]
Truthy(v) == v # NoneVal /\ v # <<>>

\* d[k] = v on a dict
Put(m, k, v) == [x \in DOMAIN m \cup {k} |-> IF x = k THEN v ELSE m[x]]

\* d.get(k), None when the key is absent
Get(m, k) == IF k \in DOMAIN m THEN m[k] ELSE NoneVal

(***************************************************************************)
(* The regular expressions of the heuristic extractor, on offsets 0..Len   *)
(***************************************************************************)
\* \b at offset pos: exactly one of the two neighbours is a word character
WordBoundary(s, pos) ==
    LET before == pos >= 1 /\ IsWordChar(s[pos])
        after == pos < Len(s) /\ IsWordChar(s[pos + 1])
    IN  before # after

RECURSIVE SkipSpaces(_, _)
SkipSpaces(s, pos) ==
    IF pos < Len(s) /\ IsSpace(s[pos + 1]) THEN SkipSpaces(s, pos + 1) ELSE pos

RECURSIVE SkipDigits(_, _)
SkipDigits(s, pos) ==
    IF pos < Len(s) /\ IsDigit(s[pos + 1]) THEN SkipDigits(s, pos + 1) ELSE pos

\* a literal of the pattern matched at pos under (?i); kw is lower case
MatchesFolded(s, pos, kw) ==
    /\ pos + Len(kw) <= Len(s)
    /\ \A i \in 1..Len(kw) : FoldChar(s[pos + i]) = kw[i]

\* a variant of NumberAfter: \s*(\d+)\b, no ':' or '#' is accepted
NumberAfter_no_separator(s, pos) ==
    LET p3 == SkipSpaces(s, pos)
        p4 == SkipDigits(s, p3)
    IN  IF p4 > p3 /\ WordBoundary(s, p4) THEN <<p3, p4>> ELSE <<>>

\* \s*[:#]?\s*(\d+)\b from pos: the span <<a, b>> of group 1, or <<>>
NumberAfter(s, pos) ==
    LET p1 == SkipSpaces(s, pos)
        p2 == IF p1 < Len(s) /\ s[p1 + 1] \in {":", "#"} THEN p1 + 1 ELSE p1
        p3 == SkipSpaces(s, p2)
        p4 == SkipDigits(s, p3)
    IN  IF p4 > p3 /\ WordBoundary(s, p4) THEN <<p3, p4>> ELSE <<>>

W_pedido == <<"p", "e", "d", "i", "d", "o">>

W_order == <<"o", "r", "d", "e", "r">>

W_nota == <<"n", "o", "t", "a">>

W_fiscal == <<"f", "i", "s", "c", "a", "l">>

W_nf == <<"n", "f">>

\* (?:pedido|order) at pos: the offset after the keyword, or -1
PedidoKeywordEnd(s, pos) ==
    IF MatchesFolded(s, pos, W_pedido) THEN pos + Len(W_pedido)
    ELSE IF MatchesFolded(s, pos, W_order) THEN pos + Len(W_order)
    ELSE -1

\* (?:nota\s*fiscal|nf) at pos: the offset after the keyword, or -1
NotaKeywordEnd(s, pos) ==
    LET viaNota ==
            IF MatchesFolded(s, pos, W_nota)
            THEN LET p == SkipSpaces(s, pos + Len(W_nota))
                 IN  IF MatchesFolded(s, p, W_fiscal) THEN p + Len(W_fiscal) ELSE -1
            ELSE -1
    IN  IF viaNota # -1 THEN viaNota
        ELSE IF MatchesFolded(s, pos, W_nf) THEN pos + Len(W_nf)
        ELSE -1

\* the pattern (?i)\b(?:pedido|order)\s*[:#]?\s*(\d+)\b tried at offset pos
PedidoMatchAt(s, pos) ==
    IF WordBoundary(s, pos) /\ PedidoKeywordEnd(s, pos) # -1
    THEN NumberAfter(s, PedidoKeywordEnd(s, pos))
    ELSE <<>>

\* the pattern (?i)\b(?:nota\s*fiscal|nf)\s*[:#]?\s*(\d+)\b tried at offset pos
NotaMatchAt(s, pos) ==
    IF WordBoundary(s, pos) /\ NotaKeywordEnd(s, pos) # -1
    THEN NumberAfter(s, NotaKeywordEnd(s, pos))
    ELSE <<>>

\* re.search(pedido pattern, text).group(1): the leftmost match, NoneVal without one
pedido_pattern(s) ==
    LET starts == {p \in 0..Len(s) : PedidoMatchAt(s, p) # <<>>}
    IN  IF starts = {} THEN NoneVal
        ELSE LET p == CHOOSE x \in starts : \A y \in starts : x <= y
                 g == PedidoMatchAt(s, p)
             IN  Slice(s, g[1], g[2])

\* re.search(nota fiscal pattern, text).group(1)
nf_pattern(s) ==
    LET starts == {p \in 0..Len(s) : NotaMatchAt(s, p) # <<>>}
    IN  IF starts = {} THEN NoneVal
        ELSE LET p == CHOOSE x \in starts : \A y \in starts : x <= y
                 g == NotaMatchAt(s, p)
             IN  Slice(s, g[1], g[2])

\* re.findall(r'\b\d+\b', text) from offset pos on: the matched digit runs in order
RECURSIVE DigitRunsFrom(_, _)
DigitRunsFrom(s, pos) ==
    IF pos >= Len(s) THEN <<>>
    ELSE LET e == SkipDigits(s, pos)
         IN  IF e > pos /\ WordBoundary(s, pos) /\ WordBoundary(s, e)
             THEN <<Slice(s, pos, e)>> \o DigitRunsFrom(s, e)
             ELSE DigitRunsFrom(s, pos + 1)

\* re.search(r'\b' + name + r'\b', text_lower).span(), or <<>>
WholeWordSpan(textLower, name) ==
    LET starts == {p \in 0..(Len(textLower) - Len(name)) :
                      /\ Slice(textLower, p, p + Len(name)) = name
                      /\ WordBoundary(textLower, p)
                      /\ WordBoundary(textLower, p + Len(name))}
    IN  IF starts = {} THEN <<>>
        ELSE LET p == CHOOSE x \in starts : \A y \in starts : x <= y
             IN  <<p, p + Len(name)>>

(***************************************************************************)
(* EntityExtractor: the heuristic tier                                     *)
(***************************************************************************)
distribuidores_conhecidos ==
    << <<"o", "f", "f", "i", "c", "e", "r">>,
       <<"i", "n", "g", "r", "a", "m">>,
       <<"g", "o", "l", "d", "e", "n">>,
       <<"a", "l", "c", "a", "t", "e", "i", "a">>,
       <<"n", "e", "t", "w", "o", "r", "k", "1">>,
       <<"n", "1">> >>

\* a variant of DistribuidorScan: the loop ends at the first name that is in
\* text_lower, whole word or not
RECURSIVE DistribuidorScan_stops(_, _)
DistribuidorScan_stops(text, i) ==
    IF i > Len(distribuidores_conhecidos) THEN NoneVal
    ELSE LET name == distribuidores_conhecidos[i]
         IN  IF Contains(lower(text), name)
             THEN LET span == WholeWordSpan(lower(text), name)
                  IN  IF span # <<>> THEN strip(Slice(text, span[1], span[2]))
                      ELSE NoneVal
             ELSE DistribuidorScan_stops(text, i + 1)

\* the loop over distribuidores_conhecidos from index i: the first name that is in
\* text_lower and matches as a whole word gives text[start:end].strip()
RECURSIVE DistribuidorScan(_, _)
DistribuidorScan(text, i) ==
    IF i > Len(distribuidores_conhecidos) THEN NoneVal
    ELSE LET name == distribuidores_conhecidos[i]
             span == IF Contains(lower(text), name)
                     THEN WholeWordSpan(lower(text), name)
                     ELSE <<>>
         IN  IF span # <<>> THEN strip(Slice(text, span[1], span[2]))
             ELSE DistribuidorScan(text, i + 1)

\* a variant of ClassifyRun: the default rule assigns whether or not pedido is set
ClassifyRun_default_replaces(text, result, match) ==
    LET pos == Find(text, match)
        context_before == lower(Slice(text, 0, pos))
    IN  IF \/ Contains(context_before, W_nota)
           \/ Contains(context_before, W_fiscal)
           \/ Contains(context_before, W_nf)
        THEN Put(result, "nota_fiscal", match)
        ELSE Put(result, "pedido", match)

\* one iteration of the loop over the bare digit runs
ClassifyRun(text, result, match) ==
    LET pos == Find(text, match)
        context_before == lower(Slice(text, 0, pos))
    IN  IF \/ Contains(context_before, W_nota)
           \/ Contains(context_before, W_fiscal)
           \/ Contains(context_before, W_nf)
        THEN Put(result, "nota_fiscal", match)
        ELSE IF Contains(context_before, W_pedido) \/ Contains(context_before, W_order)
        THEN Put(result, "pedido", match)
        ELSE IF "pedido" \notin DOMAIN result
        THEN Put(result, "pedido", match)
        ELSE result

RECURSIVE ClassifyRuns(_, _, _)
ClassifyRuns(text, result, matches) ==
    IF matches = <<>> THEN result
    ELSE ClassifyRuns(text, ClassifyRun(text, result, Head(matches)), Tail(matches))

\* if found: result[key] = found
PutIfFound(result, key, found) ==
    IF found # NoneVal THEN Put(result, key, found) ELSE result

\* step 4 of _fallback_extraction: the bare digit runs, when steps 2 and 3 found nothing
LooseNumbers(text, result) ==
    IF "pedido" \notin DOMAIN result /\ "nota_fiscal" \notin DOMAIN result
    THEN ClassifyRuns(text, result, DigitRunsFrom(text, 0))
    ELSE result

fallback_extraction(text) ==
    LooseNumbers(text,
        PutIfFound(PutIfFound(PutIfFound(EmptyMap, "distribuidor", DistribuidorScan(text, 1)),
                              "pedido", pedido_pattern(text)),
                   "nota_fiscal", nf_pattern(text)))

(***************************************************************************)
(* EntityExtractor: the model tiers                                        *)
(***************************************************************************)
LowerToUpper == [a |-> "A", b |-> "B", c |-> "C", d |-> "D", e |-> "E", f |-> "F",
                 g |-> "G", h |-> "H", i |-> "I", j |-> "J", k |-> "K", l |-> "L",
                 m |-> "M", n |-> "N", o |-> "O", p |-> "P", q |-> "Q", r |-> "R",
                 s |-> "S", t |-> "T", u |-> "U", v |-> "V", w |-> "W", x |-> "X",
                 y |-> "Y", z |-> "Z"]

RECURSIVE upper(_)
upper(s) ==
    IF s = <<>> THEN <<>>
    ELSE <<IF Head(s) \in LowerLetters THEN LowerToUpper[Head(s)] ELSE Head(s)>>
         \o upper(Tail(s))

\* s.endswith(suffix)
EndsWith(s, suffix) ==
    Len(s) >= Len(suffix) /\ SubSeq(s, Len(s) - Len(suffix) + 1, Len(s)) = suffix

\* re.sub(r'[^0-9]', '', text) leaves at least one character
is_valid_number(text) == \E i \in 1..Len(text) : text[i] \in Digits

clean_entity_text(text) == strip(text)

L_DISTRIBUIDOR == <<"D", "I", "S", "T", "R", "I", "B", "U", "I", "D", "O", "R">>

L_ORG == <<"O", "R", "G">>

L_ORGANIZATION == <<"O", "R", "G", "A", "N", "I", "Z", "A", "T", "I", "O", "N">>

L_PEDIDO == <<"P", "E", "D", "I", "D", "O">>

L_ORDER == <<"O", "R", "D", "E", "R">>

L_NOTA == <<"N", "O", "T", "A">>

L_FISCAL == <<"F", "I", "S", "C", "A", "L">>

L_INVOICE == <<"I", "N", "V", "O", "I", "C", "E">>

\* a variant of ProcessEntity: the label is compared as it is written
ProcessEntity_case_sensitive(result, entity) ==
    LET entity_text == entity.word
        entity_type == entity.entity_group
    IN  IF \/ Contains(entity_type, L_DISTRIBUIDOR)
           \/ Contains(entity_type, L_ORG)
           \/ Contains(entity_type, L_ORGANIZATION)
        THEN Put(result, "distribuidor", clean_entity_text(entity_text))
        ELSE IF Contains(entity_type, L_PEDIDO) \/ Contains(entity_type, L_ORDER)
        THEN IF is_valid_number(entity_text)
             THEN Put(result, "pedido", clean_entity_text(entity_text))
             ELSE result
        ELSE IF \/ Contains(entity_type, L_NOTA)
                \/ Contains(entity_type, L_FISCAL)
                \/ Contains(entity_type, L_INVOICE)
        THEN IF is_valid_number(entity_text)
             THEN Put(result, "nota_fiscal", clean_entity_text(entity_text))
             ELSE result
        ELSE result

\* one iteration of the loop of _process_entities
ProcessEntity(result, entity) ==
    LET entity_text == entity.word
        entity_type == upper(entity.entity_group)
    IN  IF \/ Contains(entity_type, L_DISTRIBUIDOR)
           \/ Contains(entity_type, L_ORG)
           \/ Contains(entity_type, L_ORGANIZATION)
        THEN Put(result, "distribuidor", clean_entity_text(entity_text))
        ELSE IF Contains(entity_type, L_PEDIDO) \/ Contains(entity_type, L_ORDER)
        THEN IF is_valid_number(entity_text)
             THEN Put(result, "pedido", clean_entity_text(entity_text))
             ELSE result
        ELSE IF \/ Contains(entity_type, L_NOTA)
                \/ Contains(entity_type, L_FISCAL)
                \/ Contains(entity_type, L_INVOICE)
        THEN IF is_valid_number(entity_text)
             THEN Put(result, "nota_fiscal", clean_entity_text(entity_text))
             ELSE result
        ELSE result

RECURSIVE ProcessEntities(_, _)
ProcessEntities(result, entities) ==
    IF entities = <<>> THEN result
    ELSE ProcessEntities(ProcessEntity(result, Head(entities)), Tail(entities))

\* a variant of OrHeuristic: an empty map is returned as it is
OrHeuristic_keeps_empty(result, text) == result

\* if not result: return self._fallback_extraction(text); return result
OrHeuristic(result, text) ==
    IF result = EmptyMap THEN fallback_extraction(text) ELSE result

\* the label mapping of the primary model: result after the loop of _process_entities
map_entities(entities) == ProcessEntities(EmptyMap, entities)

\* _process_entities: the label mapping of the primary model, the heuristic
\* extractor when it maps nothing
process_entities(entities, text) == OrHeuristic(map_entities(entities), text)

S_ORG == <<"-", "O", "R", "G">>

S_CARDINAL == <<"-", "C", "A", "R", "D", "I", "N", "A", "L">>

S_NUM == <<"-", "N", "U", "M">>

\* a variant of ProcessNumEntity: nota, fiscal and nf are looked for before pedido
\* and order, as the heuristic extractor does
ProcessNumEntity_nota_first(result, entity, text) ==
    LET entity_text == entity.word
        context_before == lower(Slice(text, 0, entity.start))
    IN  IF ~is_valid_number(entity_text) THEN result
        ELSE IF \/ Contains(context_before, W_nota)
                \/ Contains(context_before, W_fiscal)
                \/ Contains(context_before, W_nf)
        THEN Put(result, "nota_fiscal", clean_entity_text(entity_text))
        ELSE IF Contains(context_before, W_pedido) \/ Contains(context_before, W_order)
        THEN Put(result, "pedido", clean_entity_text(entity_text))
        ELSE IF "pedido" \notin DOMAIN result
        THEN Put(result, "pedido", clean_entity_text(entity_text))
        ELSE result

\* one iteration of the loop over num_entities of _process_fallback_entities
ProcessNumEntity(result, entity, text) ==
    LET entity_text == entity.word
        context_before == lower(Slice(text, 0, entity.start))
    IN  IF ~is_valid_number(entity_text) THEN result
        ELSE IF Contains(context_before, W_pedido) \/ Contains(context_before, W_order)
        THEN Put(result, "pedido", clean_entity_text(entity_text))
        ELSE IF \/ Contains(context_before, W_nota)
                \/ Contains(context_before, W_fiscal)
                \/ Contains(context_before, W_nf)
        THEN Put(result, "nota_fiscal", clean_entity_text(entity_text))
        ELSE IF "pedido" \notin DOMAIN result
        THEN Put(result, "pedido", clean_entity_text(entity_text))
        ELSE result

RECURSIVE ProcessNumEntities(_, _, _)
ProcessNumEntities(result, entities, text) ==
    IF entities = <<>> THEN result
    ELSE ProcessNumEntities(ProcessNumEntity(result, Head(entities), text),
                            Tail(entities), text)

\* [e for e in entities if keep(e)]
RECURSIVE FilterBySuffix(_, _)
FilterBySuffix(entities, suffixes) ==
    IF entities = <<>> THEN <<>>
    ELSE (IF \E x \in suffixes : EndsWith(Head(entities).entity, x)
          THEN <<Head(entities)>> ELSE <<>>)
         \o FilterBySuffix(Tail(entities), suffixes)

\* the context scan over the secondary model's spans: result after the loop of
\* _process_fallback_entities
scan_entities(entities, text) ==
    LET org_entities == FilterBySuffix(entities, {S_ORG})
        r1 == IF org_entities # <<>>
              THEN Put(EmptyMap, "distribuidor", clean_entity_text(org_entities[1].word))
              ELSE EmptyMap
        num_entities == FilterBySuffix(entities, {S_CARDINAL, S_NUM})
    IN  ProcessNumEntities(r1, num_entities, text)

\* _process_fallback_entities: the context scan, the heuristic extractor when it
\* finds nothing
process_fallback_entities(entities, text) == OrHeuristic(scan_entities(entities, text), text)

NoPipeline == "None"

\* what one call of self.ner_pipeline(text) gives: an exception or a list of spans
RaiseOut == [raised |-> TRUE, entities |-> <<>>]

NoOut == [raised |-> FALSE, entities |-> <<>>]

\* the normalization of the spans raises KeyError: a span lacks a key that
\* _process_entities (word, entity_group) or _process_fallback_entities (entity) reads
SpansRaise(self, entities) ==
    \E i \in 1..Len(entities) :
        IF self.is_fallback THEN "entity" \notin DOMAIN entities[i]
        ELSE ~({"word", "entity_group"} \subseteq DOMAIN entities[i])

\* the tiers a call consults after a pipeline call that returned spans
TiersAfter(result) == IF result = EmptyMap THEN <<"pipeline", "heuristic">> ELSE <<"pipeline">>

\* a variant of ExtractTrace: a pipeline that raised is called a second time
ExtractTrace_retries(self, text, out) ==
    IF self.ner_pipeline = NoPipeline
    THEN [result |-> fallback_extraction(text), pipeline_runs |-> 0, handled |-> FALSE,
          raises |-> FALSE, tiers |-> <<"heuristic">>]
    ELSE IF out.raised \/ SpansRaise(self, out.entities)
    THEN [result |-> fallback_extraction(text), pipeline_runs |-> 2, handled |-> TRUE,
          raises |-> FALSE, tiers |-> <<"pipeline", "pipeline", "heuristic">>]
    ELSE IF self.is_fallback
    THEN [result |-> process_fallback_entities(out.entities, text),
          pipeline_runs |-> 1, handled |-> FALSE, raises |-> FALSE,
          tiers |-> TiersAfter(scan_entities(out.entities, text))]
    ELSE [result |-> process_entities(out.entities, text),
          pipeline_runs |-> 1, handled |-> FALSE, raises |-> FALSE,
          tiers |-> TiersAfter(map_entities(out.entities))]

\* extract_entities with what it ran: the entity map, how often the pipeline was
\* invoked, whether the except branch ran, whether an exception leaves the call,
\* and the tiers it consulted, in order
ExtractTrace(self, text, out) ==
    IF self.ner_pipeline = NoPipeline
    THEN [result |-> fallback_extraction(text), pipeline_runs |-> 0, handled |-> FALSE,
          raises |-> FALSE, tiers |-> <<"heuristic">>]
    ELSE IF out.raised \/ SpansRaise(self, out.entities)
    THEN [result |-> fallback_extraction(text), pipeline_runs |-> 1, handled |-> TRUE,
          raises |-> FALSE, tiers |-> <<"pipeline", "heuristic">>]
    ELSE IF self.is_fallback
    THEN [result |-> process_fallback_entities(out.entities, text),
          pipeline_runs |-> 1, handled |-> FALSE, raises |-> FALSE,
          tiers |-> TiersAfter(scan_entities(out.entities, text))]
    ELSE [result |-> process_entities(out.entities, text),
          pipeline_runs |-> 1, handled |-> FALSE, raises |-> FALSE,
          tiers |-> TiersAfter(map_entities(out.entities))]

extract_entities(self, text, out) == ExtractTrace(self, text, out).result

\* a variant of ExtractorAfterCall: an inference failure drops the pipeline
ExtractorAfterCall_disables(self, out) ==
    IF out.raised THEN [self EXCEPT !.ner_pipeline = NoPipeline] ELSE self

\* the extractor object after an extract_entities call: the method assigns no attribute
ExtractorAfterCall(self, out) == self

\* a variant of load_fallback_model: is_fallback is set before the load is tried
load_fallback_model_flags_first(self, secondary_loads) ==
    IF ~self.fallback_model THEN self
    ELSE IF secondary_loads
    THEN [self EXCEPT !.ner_pipeline = "secondary", !.is_fallback = TRUE]
    ELSE [self EXCEPT !.ner_pipeline = NoPipeline, !.is_fallback = TRUE]

\* _load_fallback_model
load_fallback_model(self, secondary_loads) ==
    IF ~self.fallback_model THEN self
    ELSE IF secondary_loads
    THEN [self EXCEPT !.ner_pipeline = "secondary", !.is_fallback = TRUE]
    ELSE [self EXCEPT !.ner_pipeline = NoPipeline]

\* a variant of initialize_model: a failed primary load leaves __init__ as an exception
initialize_model_raises(self, primary_loads, secondary_loads) ==
    IF primary_loads THEN [self EXCEPT !.ner_pipeline = "primary"]
    ELSE [self EXCEPT !.state = "raised"]

\* _initialize_model
initialize_model(self, primary_loads, secondary_loads) ==
    IF primary_loads THEN [self EXCEPT !.ner_pipeline = "primary"]
    ELSE load_fallback_model(self, secondary_loads)

\* EntityExtractor.__init__: fallback_model is whether a fallback model name is given
EntityExtractorInit(fallback_model, primary_loads, secondary_loads) ==
    initialize_model([state |-> "ready", fallback_model |-> fallback_model,
                      ner_pipeline |-> NoPipeline, is_fallback |-> FALSE],
                     primary_loads, secondary_loads)

\* is_distribuidor_suportado
distribuidores_suportados ==
    { <<"o", "f", "f", "i", "c", "e", "r">>,
      <<"i", "n", "g", "r", "a", "m">>,
      <<"g", "o", "l", "d", "e", "n">> }

is_distribuidor_suportado(distribuidor) ==
    IF ~Truthy(distribuidor) THEN FALSE
    ELSE lower(distribuidor) \in {lower(d) : d \in distribuidores_suportados}

(***************************************************************************)
(* domain.models: Query, Response, Session (their source is not in src/)   *)
(***************************************************************************)
Keys == <<"distribuidor", "pedido", "nota_fiscal">>

KeySet == {Keys[i] : i \in 1..Len(Keys)}

\* Query(session_id=..., query_text=...)
QueryNew(session_id, query_text) ==
    [session_id |-> session_id, query_text |-> query_text, entities |-> EmptyMap,
     distribuidor |-> NoneVal, pedido |-> NoneVal, nota_fiscal |-> NoneVal]

\* Query.from_entities
from_entities(session_id, query_text, entities) ==
    [session_id |-> session_id, query_text |-> query_text, entities |-> entities,
     distribuidor |-> Get(entities, "distribuidor"),
     pedido |-> Get(entities, "pedido"),
     nota_fiscal |-> Get(entities, "nota_fiscal")]

\* Query.is_valid: a distribuidor and at least one of pedido, nota_fiscal
is_valid(query) ==
    Truthy(query.distribuidor) /\ (Truthy(query.pedido) \/ Truthy(query.nota_fiscal))

\* Query.get_missing_fields: the absent keys, in the order of Keys
RECURSIVE MissingFrom(_, _)
MissingFrom(query, i) ==
    IF i > Len(Keys) THEN <<>>
    ELSE (IF Truthy(query[Keys[i]]) THEN <<>> ELSE <<Keys[i]>>) \o MissingFrom(query, i + 1)

get_missing_fields(query) == MissingFrom(query, 1)

StatusResolved == "resolved"

StatusMissingInfo == "missing_info"

StatusError == "error"

\* Response.success
ResponseSuccess(session_id, query_text, response_text, distribuidor, pedido, nota_fiscal, data) ==
    [status |-> StatusResolved, session_id |-> session_id, query_text |-> query_text,
     response_text |-> response_text, distribuidor |-> distribuidor, pedido |-> pedido,
     nota_fiscal |-> nota_fiscal, missing_fields |-> NoneVal, error |-> NoneVal,
     data |-> data]

\* Response.missing_info
ResponseMissingInfo(session_id, query_text, missing_fields, distribuidor, pedido, nota_fiscal) ==
    [status |-> StatusMissingInfo, session_id |-> session_id, query_text |-> query_text,
     response_text |-> <<"Faltam informacoes: ">> \o missing_fields,
     distribuidor |-> distribuidor, pedido |-> pedido, nota_fiscal |-> nota_fiscal,
     missing_fields |-> missing_fields, error |-> NoneVal, data |-> NoneVal]

\* Response.error
ResponseError(session_id, query_text, error_message) ==
    [status |-> StatusError, session_id |-> session_id, query_text |-> query_text,
     response_text |-> error_message, distribuidor |-> NoneVal, pedido |-> NoneVal,
     nota_fiscal |-> NoneVal, missing_fields |-> NoneVal, error |-> error_message,
     data |-> NoneVal]

\* Session(session_id=..., active=True): empty context, empty history
SessionNew(session_id) ==
    [session_id |-> session_id, active |-> TRUE, context |-> EmptyMap, history |-> <<>>]

\* Session.add_to_history
add_to_history(session, query, response, entities) ==
    [session EXCEPT !.history =
        Append(@, [query |-> query, response |-> response, entities |-> entities])]

\* Session.update_context
update_context(session, key, value) ==
    [session EXCEPT !.context = Put(@, key, value)]

(***************************************************************************)
(* Bounds and inputs                                                       *)
(***************************************************************************)
MaxTurns == 2

\* the turns in which the session store raises
MaxFaultyTurns == 1

MaxSessions == 1

MaxCalls == 2

Callers == {"c1", "c2"}

T_officer_pedido == <<"O", "f", "f", "i", "c", "e", "r", " ", "p", "e", "d", "i", "d", "o",
                      " ", "1", "1", "2", "2", "3", "3">>

T_alcateia_pedido == <<"a", "l", "c", "a", "t", "e", "i", "a", " ", "p", "e", "d", "i", "d",
                       "o", " ", "9", "9", "9">>

T_na_officer == <<"n", "a", " ", "O", "f", "f", "i", "c", "e", "r">>

T_pedido == <<"p", "e", "d", "i", "d", "o", " ", "1", "2">>

T_nf == <<"n", "f", " ", "7">>

T_oi == <<"o", "i">>

\* the query texts of the turns
ServiceTexts == {T_officer_pedido, T_alcateia_pedido, T_na_officer, T_pedido, T_nf, T_oi}

\* the maximal runs of non-space characters of s from offset pos on, with their offsets
RECURSIVE TokensFrom(_, _)
TokensFrom(s, pos) ==
    IF pos >= Len(s) THEN <<>>
    ELSE IF IsSpace(s[pos + 1]) THEN TokensFrom(s, pos + 1)
    ELSE LET ends == {e \in (pos + 1)..Len(s) : e = Len(s) \/ IsSpace(s[e + 1])}
             e == CHOOSE x \in ends : \A y \in ends : x <= y
         IN  <<[word |-> Slice(s, pos, e), start |-> pos]>> \o TokensFrom(s, e)

\* a span as the aggregated primary pipeline reports it
PrimarySpan(token, label) ==
    [entity_group |-> label, word |-> token.word, start |-> token.start]

\* a span as the secondary pipeline reports it
SecondarySpan(token, label) ==
    [entity |-> label, word |-> token.word, start |-> token.start]

B_ORG == <<"B", "-", "O", "R", "G">>

B_CARDINAL == <<"B", "-", "C", "A", "R", "D", "I", "N", "A", "L">>

L_MISC == <<"M", "I", "S", "C">>

\* the pipeline tags the first word of the text as an organization
TagFirst(self, text) ==
    LET tokens == TokensFrom(text, 0)
    IN  IF tokens = <<>> THEN <<>>
        ELSE IF self.is_fallback THEN <<SecondarySpan(tokens[1], B_ORG)>>
        ELSE <<PrimarySpan(tokens[1], L_ORG)>>

\* the pipeline tags the last word of the text: a number for the secondary
\* model, a label the mapping does not know for the primary one
TagLast(self, text) ==
    LET tokens == TokensFrom(text, 0)
    IN  IF tokens = <<>> THEN <<>>
        ELSE IF self.is_fallback THEN <<SecondarySpan(tokens[Len(tokens)], B_CARDINAL)>>
        ELSE <<PrimarySpan(tokens[Len(tokens)], L_MISC)>>

\* what self.ner_pipeline(text) may give in a turn
ServiceOutputs(self, text) ==
    IF self.ner_pipeline = NoPipeline THEN {NoOut}
    ELSE {RaiseOut, [raised |-> FALSE, entities |-> TagFirst(self, text)]}

\* what self.ner_pipeline(text) may give in a direct extract_entities call
ExtractOutputs(self, text) ==
    IF self.ner_pipeline = NoPipeline THEN {NoOut}
    ELSE {RaiseOut, NoOut,
          [raised |-> FALSE, entities |-> TagFirst(self, text)],
          [raised |-> FALSE, entities |-> TagLast(self, text)]}

\* str(e) of the exceptions the session store raises
E_get == <<"storage.get failed">>

E_set == <<"storage.set failed">>

(***************************************************************************)
(* EntityService                                                           *)
(***************************************************************************)
\* the extractor objects a service may hold: a fallback model is configured
ExtractorModes ==
    {EntityExtractorInit(TRUE, primary_loads, secondary_loads) :
        primary_loads \in BOOLEAN, secondary_loads \in BOOLEAN}

\* EntityService.extract_entities, tabulated over the inputs of the turns
service_extract_entities ==
    [self \in ExtractorModes |->
        [text \in ServiceTexts |->
            [out \in ServiceOutputs(self, text) |-> extract_entities(self, text, out)]]]

\* EntityService.process_query
entity_process_query(self, session_id, query_text, out) ==
    from_entities(session_id, query_text, service_extract_entities[self][query_text][out])

\* a variant of EnrichKey: a key neither the turn nor the context has gets a default
EnrichKey_defaults(query, context, key) ==
    IF ~Truthy(query[key])
    THEN LET value == IF key \in DOMAIN context THEN context[key] ELSE <<"0">>
         IN [query EXCEPT ![key] = value, !.entities = Put(@, key, value)]
    ELSE query

\* a variant of EnrichKey: the context value wins over the value of the turn
EnrichKey_context_first(query, context, key) ==
    IF key \in DOMAIN context
    THEN [query EXCEPT ![key] = context[key],
                       !.entities = Put(@, key, context[key])]
    ELSE query

\* one of the three if statements of enrich_query_from_context
EnrichKey(query, context, key) ==
    IF ~Truthy(query[key]) /\ key \in DOMAIN context
    THEN [query EXCEPT ![key] = context[key],
                       !.entities = Put(@, key, context[key])]
    ELSE query

\* a variant of enrich_query_from_context: only the distribuidor is taken from the context
enrich_query_from_context_distribuidor_only(query, context) ==
    EnrichKey(query, context, "distribuidor")

enrich_query_from_context(query, context) ==
    EnrichKey(EnrichKey(EnrichKey(query, context, "distribuidor"), context, "pedido"),
              context, "nota_fiscal")

(***************************************************************************)
(* QueryService                                                            *)
(*                                                                         *)
(* The fixed parts of a message are single elements of the text sequence,  *)
(* written without the accents of the source; the values put into it are   *)
(* the character sequences themselves.                                     *)
(***************************************************************************)
MockData == <<"consulted_at: 2023-06-15T10:30:00", "source: mock">>

\* a variant of generate_mock_response: the nota_fiscal is looked at before the pedido
generate_mock_response_nota_first(query) ==
    LET distribuidor == IF Truthy(query.distribuidor) THEN query.distribuidor
                        ELSE <<"distribuidor nao especificado">>
    IN  IF Truthy(query.nota_fiscal)
        THEN <<"A nota fiscal ">> \o query.nota_fiscal \o <<" do distribuidor ">>
             \o distribuidor
             \o <<" foi emitida e o produto esta em transito. A previsao de entrega e para 3 dias uteis.">>
        ELSE IF Truthy(query.pedido)
        THEN <<"O pedido ">> \o query.pedido \o <<" do distribuidor ">> \o distribuidor
             \o <<" esta em processamento. A previsao de entrega e para 5 dias uteis.">>
        ELSE <<"Nao foi possivel identificar informacoes suficientes para processar sua consulta.">>

\* _generate_mock_response
generate_mock_response(query) ==
    LET distribuidor == IF Truthy(query.distribuidor) THEN query.distribuidor
                        ELSE <<"distribuidor nao especificado">>
    IN  IF Truthy(query.pedido)
        THEN <<"O pedido ">> \o query.pedido \o <<" do distribuidor ">> \o distribuidor
             \o <<" esta em processamento. A previsao de entrega e para 5 dias uteis.">>
        ELSE IF Truthy(query.nota_fiscal)
        THEN <<"A nota fiscal ">> \o query.nota_fiscal \o <<" do distribuidor ">>
             \o distribuidor
             \o <<" foi emitida e o produto esta em transito. A previsao de entrega e para 3 dias uteis.">>
        ELSE <<"Nao foi possivel identificar informacoes suficientes para processar sua consulta.">>

\* the response text of the unsupported-distributor branch
UnsupportedText(distribuidor) ==
    <<"Desculpe, atualmente nao trabalhamos com o distribuidor ">> \o distribuidor
    \o <<". Os distribuidores suportados sao: Officer, Ingram e Golden.">>

\* a variant of BuildResponse: the validity check comes before the distributor gate
BuildResponse_validity_first(session_id, query_text, query) ==
    IF ~is_valid(query)
    THEN ResponseMissingInfo(session_id, query_text, get_missing_fields(query),
                             query.distribuidor, query.pedido, query.nota_fiscal)
    ELSE IF ~is_distribuidor_suportado(query.distribuidor)
    THEN ResponseSuccess(session_id, query_text, UnsupportedText(query.distribuidor),
                         query.distribuidor, query.pedido, query.nota_fiscal, NoneVal)
    ELSE ResponseSuccess(session_id, query_text, generate_mock_response(query),
                         query.distribuidor, query.pedido, query.nota_fiscal, MockData)

\* a variant of BuildResponse: the decline of an unsupported distribuidor carries the payload
BuildResponse_payload_on_decline(session_id, query_text, query) ==
    IF Truthy(query.distribuidor) /\ ~is_distribuidor_suportado(query.distribuidor)
    THEN ResponseSuccess(session_id, query_text, UnsupportedText(query.distribuidor),
                         query.distribuidor, query.pedido, query.nota_fiscal, MockData)
    ELSE IF ~is_valid(query)
    THEN ResponseMissingInfo(session_id, query_text, get_missing_fields(query),
                             query.distribuidor, query.pedido, query.nota_fiscal)
    ELSE ResponseSuccess(session_id, query_text, generate_mock_response(query),
                         query.distribuidor, query.pedido, query.nota_fiscal, MockData)

\* a variant of BuildResponse: no validity check after the distributor gate
BuildResponse_no_validity(session_id, query_text, query) ==
    IF Truthy(query.distribuidor) /\ ~is_distribuidor_suportado(query.distribuidor)
    THEN ResponseSuccess(session_id, query_text, UnsupportedText(query.distribuidor),
                         query.distribuidor, query.pedido, query.nota_fiscal, NoneVal)
    ELSE ResponseSuccess(session_id, query_text, generate_mock_response(query),
                         query.distribuidor, query.pedido, query.nota_fiscal, MockData)

\* process_query from the enriched query to the response handed to add_interaction
BuildResponse(session_id, query_text, query) ==
    IF Truthy(query.distribuidor) /\ ~is_distribuidor_suportado(query.distribuidor)
    THEN ResponseSuccess(session_id, query_text, UnsupportedText(query.distribuidor),
                         query.distribuidor, query.pedido, query.nota_fiscal, NoneVal)
    ELSE IF ~is_valid(query)
    THEN ResponseMissingInfo(session_id, query_text, get_missing_fields(query),
                             query.distribuidor, query.pedido, query.nota_fiscal)
    ELSE ResponseSuccess(session_id, query_text, generate_mock_response(query),
                         query.distribuidor, query.pedido, query.nota_fiscal, MockData)

\* the error_message of the except branch: the f-string around str(e)
ErrorMessage(e) == <<"Ocorreu um erro ao processar sua consulta: ">> \o e

(***************************************************************************)
(* SessionService.add_interaction, up to the repository update             *)
(***************************************************************************)
\* a variant of UpdateIfTruthy: a distribuidor that is not supported is not stored
UpdateIfTruthy_supported_only(session, key, value) ==
    IF Truthy(value) /\ (key # "distribuidor" \/ is_distribuidor_suportado(value))
    THEN update_context(session, key, value)
    ELSE session

\* if query.<key>: session.update_context(key, query.<key>)
UpdateIfTruthy(session, key, value) ==
    IF Truthy(value) THEN update_context(session, key, value) ELSE session

\* a variant of add_interaction_session: the distribuidor is not written to the context
add_interaction_session_skips_distribuidor(session, query, response) ==
    LET s0 == add_to_history(session, query.query_text, response.response_text,
                             query.entities)
        s2 == UpdateIfTruthy(s0, "pedido", query.pedido)
    IN  UpdateIfTruthy(s2, "nota_fiscal", query.nota_fiscal)

\* a variant of add_interaction_session: the context is rebuilt from the turn's query
add_interaction_session_rebuilds(session, query, response) ==
    LET s0 == add_to_history([session EXCEPT !.context = EmptyMap], query.query_text,
                             response.response_text, query.entities)
        s1 == UpdateIfTruthy(s0, "distribuidor", query.distribuidor)
        s2 == UpdateIfTruthy(s1, "pedido", query.pedido)
    IN  UpdateIfTruthy(s2, "nota_fiscal", query.nota_fiscal)

\* a variant of add_interaction_session: nothing is appended to the history
add_interaction_session_no_entry(session, query, response) ==
    LET s1 == UpdateIfTruthy(session, "distribuidor", query.distribuidor)
        s2 == UpdateIfTruthy(s1, "pedido", query.pedido)
    IN  UpdateIfTruthy(s2, "nota_fiscal", query.nota_fiscal)

\* the session object add_interaction hands to session_repository.update
add_interaction_session(session, query, response) ==
    LET s0 == add_to_history(session, query.query_text, response.response_text,
                             query.entities)
        s1 == UpdateIfTruthy(s0, "distribuidor", query.distribuidor)
        s2 == UpdateIfTruthy(s1, "pedido", query.pedido)
    IN  UpdateIfTruthy(s2, "nota_fiscal", query.nota_fiscal)

(***************************************************************************)
(* State                                                                   *)
(***************************************************************************)
\* the id a caller sends that names no stored session
UnknownId == 0

EmptyStore == [i \in {} |-> SessionNew(0)]

\* storage.set(session_id, data)
StoreSet(st, id, data) == [x \in DOMAIN st \cup {id} |-> IF x = id THEN data ELSE st[x]]

IdleReq ==
    [arg_id |-> UnknownId, session_id |-> UnknownId, query_text |-> <<>>,
     context |-> EmptyMap, extracted |-> EmptyMap,
     query |-> QueryNew(UnknownId, <<>>), response |-> ResponseError(UnknownId, <<>>, <<>>),
     session |-> SessionNew(UnknownId), raised |-> NoneVal, appends |-> 0,
     swallowed |-> FALSE, before |-> EmptyStore]

NoCall ==
    [text |-> <<>>, out |-> NoOut, result |-> EmptyMap, pipeline_runs |-> 0,
     handled |-> FALSE, raises |-> FALSE, prev_raised |-> FALSE, tiers |-> <<>>]

\* no operation of the storage has been called
NoOps ==
    [last |-> [id \in {} |-> "set"], op |-> "none", id |-> UnknownId,
     result |-> NoneVal, before |-> EmptyStore]

InitService ==
    /\ store = EmptyStore
    /\ pc = [p \in Callers |-> "idle"]
    /\ req = [p \in Callers |-> IdleReq]
    /\ ret = [p \in Callers |-> <<>>]
    /\ nextId = 0
    /\ turns = 0
    /\ faults = 0
    /\ lastCall = NoCall
    /\ calls = 0
    /\ ops = NoOps

\* the loads construction tried and saw succeed: the secondary model is tried only
\* after the primary failed, and only when one is configured
Loaded(fallback_model, primary_loads, secondary_loads) ==
    [primary |-> primary_loads,
     secondary |-> ~primary_loads /\ fallback_model /\ secondary_loads]

\* the service starts with the extractor constructed (a fallback model is configured)
Init ==
    /\ \E primary_loads \in BOOLEAN, secondary_loads \in BOOLEAN :
          /\ loads = Loaded(TRUE, primary_loads, secondary_loads)
          /\ extractor = EntityExtractorInit(TRUE, primary_loads, secondary_loads)
    /\ InitService

(***************************************************************************)
(* QueryService.process_query, one step per access to the session store    *)
(***************************************************************************)
\* return query, response
Return(p, query, response) ==
    /\ ret' = [ret EXCEPT ![p] = <<query, response>>]
    /\ pc' = [pc EXCEPT ![p] = "idle"]

\* a variant of Handler: the error is recorded with the query the turn had built
Handler_keeps_query(r, e) ==
    [r EXCEPT !.raised = e,
              !.response = ResponseError(r.session_id, r.query_text, ErrorMessage(e))]

\* except Exception as e: the error response and the minimal query of the turn
Handler(r, e) ==
    [r EXCEPT !.raised = e,
              !.response = ResponseError(r.session_id, r.query_text, ErrorMessage(e)),
              !.query = QueryNew(r.session_id, r.query_text)]

\* a variant of SessionErrorHandler: the failure of the error append leaves process_query
SessionErrorHandler_propagates(p, r) ==
    /\ req' = [req EXCEPT ![p] = [r EXCEPT !.swallowed = TRUE]]
    /\ pc' = [pc EXCEPT ![p] = "raised"]
    /\ ret' = ret

\* except Exception as session_error: logged, and the error outcome is returned
SessionErrorHandler(p, r) ==
    /\ req' = [req EXCEPT ![p] = [r EXCEPT !.swallowed = TRUE]]
    /\ Return(p, r.query, r.response)

\* the turn's local state when process_query is entered
EnterReq(sid, text) ==
    [IdleReq EXCEPT !.arg_id = sid, !.session_id = sid, !.query_text = text,
                    !.before = store]

\* get_session raises at the start of the turn
ProcessQueryGetFails(p, sid, text) ==
    /\ faults < MaxFaultyTurns
    /\ faults' = faults + 1
    /\ req' = [req EXCEPT ![p] = Handler(EnterReq(sid, text), E_get)]
    /\ pc' = [pc EXCEPT ![p] = "err_read"]
    /\ UNCHANGED <<extractor, store, nextId>>

\* the session is not found and create_session raises in the repository
ProcessQueryCreateFails(p, sid, text) ==
    /\ sid \notin DOMAIN store
    /\ faults < MaxFaultyTurns
    /\ faults' = faults + 1
    /\ req' = [req EXCEPT ![p] = Handler(EnterReq(sid, text), E_set)]
    /\ pc' = [pc EXCEPT ![p] = "err_read"]
    /\ UNCHANGED <<extractor, store, nextId>>

\* the turn's local state after the merge with the context and the response
Merged(r, query) ==
    [r EXCEPT !.query = query, !.response = BuildResponse(r.session_id, r.query_text, query)]

\* a variant of Outcome: the turn goes on under the id it was given
Outcome_given_id(r, session_id, context, extracted) ==
    Merged([r EXCEPT !.context = context, !.extracted = extracted.entities],
           enrich_query_from_context([extracted EXCEPT !.session_id = r.arg_id], context))

\* a variant of Outcome: the turn is answered from what its own text yielded
Outcome_answers_turn_only(r, session_id, context, extracted) ==
    Merged([r EXCEPT !.session_id = session_id, !.context = context,
                     !.extracted = extracted.entities],
           extracted)

\* the turn's local state after extraction, merge, validation and response
Outcome(r, session_id, context, extracted) ==
    Merged([r EXCEPT !.session_id = session_id, !.context = context,
                     !.extracted = extracted.entities],
           enrich_query_from_context(extracted, context))

\* session lookup or creation, extraction, merge, validation, response
ProcessQueryBuild(p, sid, text) ==
    /\ sid \in DOMAIN store \/ nextId < MaxSessions
    /\ \E out \in ServiceOutputs(extractor, text) :
          LET found == sid \in DOMAIN store
              session_id == IF found THEN sid ELSE nextId + 1
              session == IF found THEN store[sid] ELSE SessionNew(session_id)
          IN  /\ req' = [req EXCEPT ![p] =
                            Outcome(EnterReq(sid, text), session_id, session.context,
                                    entity_process_query(extractor, session_id, text, out))]
              /\ store' = IF found THEN store ELSE StoreSet(store, session_id, session)
              /\ nextId' = IF found THEN nextId ELSE nextId + 1
              /\ extractor' = ExtractorAfterCall(extractor, out)
    /\ pc' = [pc EXCEPT ![p] = "add_read"]
    /\ UNCHANGED faults

ProcessQuery(p) ==
    /\ pc[p] = "idle"
    /\ turns < MaxTurns
    /\ turns' = turns + 1
    /\ ret' = [ret EXCEPT ![p] = <<>>]
    /\ \E sid \in DOMAIN store \cup {UnknownId}, text \in ServiceTexts :
          \/ ProcessQueryGetFails(p, sid, text)
          \/ ProcessQueryCreateFails(p, sid, text)
          \/ ProcessQueryBuild(p, sid, text)
    /\ UNCHANGED <<loads, lastCall, calls, ops>>

\* add_interaction of the turn's outcome: session = self.get_session(session_id)
AddInteractionGet(p) ==
    /\ pc[p] = "add_read"
    /\ \/ /\ faults < MaxFaultyTurns
          /\ faults' = faults + 1
          /\ req' = [req EXCEPT ![p] = Handler(@, E_get)]
          /\ pc' = [pc EXCEPT ![p] = "err_read"]
          /\ ret' = ret
       \/ /\ faults' = faults
          /\ IF req[p].session_id \in DOMAIN store
             THEN /\ req' = [req EXCEPT ![p].session =
                                add_interaction_session(store[req[p].session_id],
                                                        req[p].query, req[p].response)]
                  /\ pc' = [pc EXCEPT ![p] = "add_write"]
                  /\ ret' = ret
             ELSE /\ req' = req
                  /\ Return(p, req[p].query, req[p].response)
    /\ UNCHANGED <<extractor, loads, store, nextId, turns, lastCall, calls, ops>>

\* add_interaction of the turn's outcome: self.session_repository.update(session)
AddInteractionUpdate(p) ==
    /\ pc[p] = "add_write"
    /\ \/ /\ faults < MaxFaultyTurns
          /\ faults' = faults + 1
          /\ req' = [req EXCEPT ![p] = Handler(@, E_set)]
          /\ pc' = [pc EXCEPT ![p] = "err_read"]
          /\ UNCHANGED <<store, ret>>
       \/ /\ faults' = faults
          /\ store' = StoreSet(store, req[p].session.session_id, req[p].session)
          /\ req' = req
          /\ Return(p, req[p].query, req[p].response)
    /\ UNCHANGED <<extractor, loads, nextId, turns, lastCall, calls, ops>>

\* add_interaction of the error outcome: session = self.get_session(session_id);
\* the store may raise again in the turn it already failed in
ErrorInteractionGet(p) ==
    /\ pc[p] = "err_read"
    /\ LET r == [req[p] EXCEPT !.appends = @ + 1]
       IN  \/ SessionErrorHandler(p, r)
           \/ IF r.session_id \in DOMAIN store
              THEN /\ req' = [req EXCEPT ![p] =
                                 [r EXCEPT !.session =
                                     add_interaction_session(store[r.session_id],
                                                             r.query, r.response)]]
                   /\ pc' = [pc EXCEPT ![p] = "err_write"]
                   /\ ret' = ret
              ELSE /\ req' = [req EXCEPT ![p] = r]
                   /\ Return(p, r.query, r.response)
    /\ UNCHANGED <<extractor, loads, store, nextId, turns, faults, lastCall, calls, ops>>

\* add_interaction of the error outcome: self.session_repository.update(session)
ErrorInteractionUpdate(p) ==
    /\ pc[p] = "err_write"
    /\ \/ /\ SessionErrorHandler(p, req[p])
          /\ store' = store
       \/ /\ store' = StoreSet(store, req[p].session.session_id, req[p].session)
          /\ req' = req
          /\ Return(p, req[p].query, req[p].response)
    /\ UNCHANGED <<extractor, loads, nextId, turns, faults, lastCall, calls, ops>>

Step(p) ==
    \/ ProcessQuery(p)
    \/ AddInteractionGet(p)
    \/ AddInteractionUpdate(p)
    \/ ErrorInteractionGet(p)
    \/ ErrorInteractionUpdate(p)

\* turns of any callers, interleaved at the accesses to the session store
Next == \E p \in Callers : Step(p)

Spec == Init /\ [][Next]_vars

SeqCaller == CHOOSE p \in Callers : TRUE

\* turns processed one at a time
SeqNext == Step(SeqCaller)

SeqSpec == Init /\ [][SeqNext]_vars

\* the same turns, one at a time, for the claims about the values a turn carries
\* and the session it is recorded in, which are checked in a run of their own
TurnSpec == Init /\ [][Step(SeqCaller)]_vars

(***************************************************************************)
(* EntityExtractor on its own: construction, then extract_entities calls   *)
(***************************************************************************)
\* texts of direct extract_entities calls that name a supported distribuidor,
\* each with the name as it is written in the text
WrittenNames == {<<"O", "f", "f", "i", "c", "e", "r">>, <<"I", "N", "G", "R", "A", "M">>, <<"g", "o", "l", "d", "e", "n">>}

DistributorTexts ==
    UNION {{[text |-> name, distribuidor |-> name],
            [text |-> <<"n", "a", " ">> \o name, distribuidor |-> name],
            [text |-> name \o <<" ", "p", "e", "d", "i", "d", "o", " ", "1", "2">>, distribuidor |-> name],
            [text |-> <<CapIDot, " ">> \o name, distribuidor |-> name]} :
           name \in WrittenNames}

\* the parts of the texts in which a keyword is followed by a digit run
LeadingWords == {<<>>, <<"d", "o", " ">>}

TrailingWords == {<<>>, <<" ", "o", "k">>}

PedidoWords == {W_pedido, <<"P", "e", "d", "i", "d", "o">>, W_order}

NotaWords == {<<"n", "o", "t", "a", " ", "f", "i", "s", "c", "a", "l">>, <<"N", "F">>, W_nf}

Separators == {<<>>, <<" ">>, <<":">>, <<" ", "#", " ">>}

DigitRuns == {<<"1", "2">>, <<"7">>}

\* the texts with one keyword and its digit run, and the texts with both keywords,
\* in either order, each with its own digit run; under pedido and nota_fiscal the
\* run that follows the keyword
NumberedTexts ==
    UNION {{[text |-> lead \o word \o sep \o run \o trail,
             pedido |-> run, nota_fiscal |-> NoneVal] : word \in PedidoWords}
           \cup {[text |-> lead \o word \o sep \o run \o trail,
                  pedido |-> NoneVal, nota_fiscal |-> run] : word \in NotaWords} :
           lead \in LeadingWords, trail \in TrailingWords, sep \in Separators,
           run \in DigitRuns}
    \cup UNION {{[text |-> pw \o sep \o run \o <<" ">> \o nw \o sep \o other,
                  pedido |-> run, nota_fiscal |-> other],
                 [text |-> nw \o sep \o other \o <<" ">> \o pw \o sep \o run,
                  pedido |-> run, nota_fiscal |-> other]} :
                pw \in PedidoWords, nw \in NotaWords, sep \in Separators,
                run \in DigitRuns, other \in DigitRuns}

\* the texts in which the digit run after the keyword runs into a letter or '_'
GluedTexts ==
    UNION {{[text |-> word \o sep \o run \o glue,
             pedido |-> run, nota_fiscal |-> NoneVal] : word \in PedidoWords}
           \cup {[text |-> word \o sep \o run \o glue,
                  pedido |-> NoneVal, nota_fiscal |-> run] : word \in NotaWords} :
           sep \in Separators, run \in DigitRuns, glue \in {<<"a">>, <<"_">>}}

\* the texts of the direct extract_entities calls
ExtractTexts == ServiceTexts

\* the texts of the calls that look for a name or for a keyword with its digit run
PatternTexts ==
    ServiceTexts \cup {d.text : d \in DistributorTexts}
    \cup {n.text : n \in NumberedTexts \cup GluedTexts}

\* before __init__ has run
NotConstructed ==
    [state |-> "new", fallback_model |-> FALSE, ner_pipeline |-> NoPipeline,
     is_fallback |-> FALSE]

ExtractInit ==
    /\ extractor = NotConstructed
    /\ loads = [primary |-> FALSE, secondary |-> FALSE]
    /\ InitService

\* EntityExtractor(model_name, fallback_model) where each load succeeds or raises
Construct ==
    /\ extractor.state = "new"
    /\ \E fallback_model \in BOOLEAN, primary_loads \in BOOLEAN, secondary_loads \in BOOLEAN :
          /\ extractor' = EntityExtractorInit(fallback_model, primary_loads, secondary_loads)
          /\ loads' = Loaded(fallback_model, primary_loads, secondary_loads)
    /\ UNCHANGED <<store, pc, req, ret, nextId, turns, faults, lastCall, calls, ops>>

\* what is recorded of one extract_entities call
CallRecord(text, out, trace, prev_raised) ==
    [text |-> text, out |-> out, result |-> trace.result,
     pipeline_runs |-> trace.pipeline_runs, handled |-> trace.handled,
     raises |-> trace.raises, prev_raised |-> prev_raised, tiers |-> trace.tiers]

\* extractor.extract_entities(text)
ExtractCall ==
    /\ extractor.state = "ready"
    /\ calls < MaxCalls
    /\ calls' = calls + 1
    /\ \E text \in ExtractTexts :
          \E out \in ExtractOutputs(extractor, text) :
             /\ lastCall' = CallRecord(text, out, ExtractTrace(extractor, text, out),
                                       lastCall.out.raised)
             /\ extractor' = ExtractorAfterCall(extractor, out)
    /\ UNCHANGED <<loads, store, pc, req, ret, nextId, turns, faults, ops>>

ExtractNext == Construct \/ ExtractCall

\* the first extractor.extract_entities(text) after construction, on the pattern
\* texts; a call leaves the extractor as it is, so later calls repeat the first
PatternCall ==
    /\ extractor.state = "ready"
    /\ calls = 0
    /\ calls' = calls + 1
    /\ \E text \in PatternTexts :
          \E out \in ExtractOutputs(extractor, text) :
             /\ lastCall' = CallRecord(text, out, ExtractTrace(extractor, text, out),
                                       lastCall.out.raised)
             /\ extractor' = ExtractorAfterCall(extractor, out)
    /\ UNCHANGED <<loads, store, pc, req, ret, nextId, turns, faults, ops>>

PatternNext == Construct \/ PatternCall

PatternSpec == ExtractInit /\ [][PatternNext]_vars

\* the words of the texts with bare digit runs
LooseWords ==
    {<<"5">>, <<"7">>, <<"1", "5">>, W_nota, W_nf, W_pedido, <<"o", "k">>}

\* the texts of one, two and three of these words
LooseTexts ==
    LooseWords
    \cup {a \o <<" ">> \o b : a \in LooseWords, b \in LooseWords}
    \cup {a \o <<" ">> \o b \o <<" ">> \o c :
             a \in LooseWords, b \in LooseWords, c \in LooseWords}

\* the texts in which another word stands between a keyword and the last word
SpacedTexts ==
    {a \o <<" ">> \o b \o <<" ", "o", "k", " ">> \o c :
        a \in LooseWords, b \in LooseWords, c \in LooseWords}

\* the ways a known name is written in a text: as a whole word in lower or in
\* upper case, under whole the index of the name in distribuidores_conhecidos; and
\* inside a longer word, under whole 0
NameForms ==
    UNION {{[written |-> distribuidores_conhecidos[i], whole |-> i],
            [written |-> upper(distribuidores_conhecidos[i]), whole |-> i],
            [written |-> distribuidores_conhecidos[i] \o <<"s">>, whole |-> 0],
            [written |-> <<"x">> \o distribuidores_conhecidos[i], whole |-> 0]} :
           i \in 1..Len(distribuidores_conhecidos)}

\* the texts with one name and with two names, in either order
NameTexts ==
    {[text |-> f.written, names |-> <<f>>] : f \in NameForms}
    \cup {[text |-> f.written \o <<" ", "e", " ">> \o g.written, names |-> <<f, g>>] :
             f \in NameForms, g \in NameForms}

\* the texts of the calls that reach the heuristic extractor's later steps
HeuristicTexts == LooseTexts \cup SpacedTexts \cup {n.text : n \in NameTexts}

\* the first extractor.extract_entities(text) after construction, on the texts
\* with bare digit runs
HeuristicCall ==
    /\ extractor.state = "ready"
    /\ calls = 0
    /\ calls' = calls + 1
    /\ \E text \in HeuristicTexts :
          \E out \in ExtractOutputs(extractor, text) :
             /\ lastCall' = CallRecord(text, out, ExtractTrace(extractor, text, out),
                                       lastCall.out.raised)
             /\ extractor' = ExtractorAfterCall(extractor, out)
    /\ UNCHANGED <<loads, store, pc, req, ret, nextId, turns, faults, ops>>

HeuristicNext == Construct \/ HeuristicCall

HeuristicSpec == ExtractInit /\ [][HeuristicNext]_vars

\* the most spans the pipeline tags in one text
MaxSpans == 3

T_spans_pedido == <<"7", " ", "o", "f", "f", "i", "c", "e", "r", " ", "p", "e", "d", "i",
                    "d", "o", " ", "1", "2", " ", "n", "f", " ", "5">>

T_spans_nf == <<"G", "o", "l", "d", "e", "n", " ", "n", "f", " ", "7", " ", "o", "k",
                " ", "5">>

SpanTexts == {T_spans_pedido, T_spans_nf}

\* the labels of the secondary pipeline's spans
SecondaryLabels ==
    {B_ORG, B_CARDINAL, <<"I", "-", "N", "U", "M">>, <<"B", "-", "P", "E", "R">>}

\* the labels of the primary pipeline's spans
PrimaryLabels ==
    {<<"B", "-", "O", "r", "g">>, L_PEDIDO, <<"o", "r", "d", "e", "r">>,
     <<"n", "o", "t", "a", "_", "f", "i", "s", "c", "a", "l">>,
     <<"I", "n", "v", "o", "i", "c", "e">>, L_MISC}

\* the lists of at most k spans over the tokens from index i on, in text order,
\* each span with one of the labels
RECURSIVE Taggings(_, _, _, _)
Taggings(self, tokens, i, k) ==
    IF i > Len(tokens) \/ k = 0 THEN {<<>>}
    ELSE Taggings(self, tokens, i + 1, k)
         \cup {<<IF self.is_fallback THEN SecondarySpan(tokens[i], label)
                 ELSE PrimarySpan(tokens[i], label)>> \o rest :
                 label \in IF self.is_fallback THEN SecondaryLabels ELSE PrimaryLabels,
                 rest \in Taggings(self, tokens, i + 1, k - 1)}

\* what self.ner_pipeline(text) may give: any tagging of at most MaxSpans words
SpanOutputs(self, text) ==
    IF self.ner_pipeline = NoPipeline THEN {NoOut}
    ELSE {[raised |-> FALSE, entities |-> spans] :
             spans \in Taggings(self, TokensFrom(text, 0), 1, MaxSpans)}

\* the first extractor.extract_entities(text) after construction, the pipeline
\* tagging several words of the text
SpanCall ==
    /\ extractor.state = "ready"
    /\ calls = 0
    /\ calls' = calls + 1
    /\ \E text \in SpanTexts :
          \E out \in SpanOutputs(extractor, text) :
             /\ lastCall' = CallRecord(text, out, ExtractTrace(extractor, text, out),
                                       lastCall.out.raised)
             /\ extractor' = ExtractorAfterCall(extractor, out)
    /\ UNCHANGED <<loads, store, pc, req, ret, nextId, turns, faults, ops>>

SpanNext == Construct \/ SpanCall

SpanSpec == ExtractInit /\ [][SpanNext]_vars

\* a list of spans with a span that has none of the keys the normalization reads
MalformedOut == [raised |-> FALSE, entities |-> <<[start |-> 0]>>]

\* extractor.extract_entities(text), the pipeline's output being any of those of
\* ExtractOutputs or a malformed list of spans
TierCall ==
    /\ extractor.state = "ready"
    /\ calls < MaxCalls
    /\ calls' = calls + 1
    /\ \E text \in ExtractTexts :
          \E out \in ExtractOutputs(extractor, text) \cup
                      (IF extractor.ner_pipeline = NoPipeline THEN {} ELSE {MalformedOut}) :
             /\ lastCall' = CallRecord(text, out, ExtractTrace(extractor, text, out),
                                       lastCall.out.raised)
             /\ extractor' = ExtractorAfterCall(extractor, out)
    /\ UNCHANGED <<loads, store, pc, req, ret, nextId, turns, faults, ops>>

TierNext == Construct \/ TierCall

TierSpec == ExtractInit /\ [][TierNext]_vars

ExtractSpec == ExtractInit /\ [][ExtractNext]_vars

(***************************************************************************)
(* Properties of a turn                                                    *)
(***************************************************************************)
\* process_query of caller p has returned
Returned(p) == pc[p] = "idle" /\ ret[p] # <<>>

RetQuery(p) == ret[p][1]

RetResponse(p) == ret[p][2]

\* process_query of caller p has returned one of the outcomes of the validator
Answered(p) == Returned(p) /\ RetResponse(p).status # StatusError

\* the value of key the turn works with: the one of the turn's text, else the
\* one of the session context as it was read at the start of the turn
MergedValue(r, key) ==
    IF key \in DOMAIN r.extracted /\ Truthy(r.extracted[key]) THEN r.extracted[key]
    ELSE Get(r.context, key)

Unsupported(r) ==
    /\ Truthy(MergedValue(r, "distribuidor"))
    /\ ~is_distribuidor_suportado(MergedValue(r, "distribuidor"))

\* the truthy keys of an entity map are exactly keys
OnlyKeys(entities, keys) == {k \in DOMAIN entities : Truthy(entities[k])} = keys

\* C1 as the specification states it: an unsupported merged distribuidor gives the
\* status unsupported, never missing_info or resolved
C1_StatusUnsupported ==
    \A p \in Callers :
        Answered(p) /\ Unsupported(req[p]) =>
            /\ RetResponse(p).status = "unsupported"
            /\ RetResponse(p).status \notin {StatusMissingInfo, StatusResolved}

\* C1, amended: an unsupported merged distribuidor, whatever the pedido and the
\* nota_fiscal are, gives the decline naming that distribuidor, with no payload and
\* no missing fields; its status tag is the one of a success response, the tag a
\* resolved turn has as well, and never missing_info
C1_UnsupportedDeclined ==
    \A p \in Callers :
        Answered(p) /\ Unsupported(req[p]) =>
            /\ RetResponse(p).response_text =
                  UnsupportedText(MergedValue(req[p], "distribuidor"))
            /\ RetResponse(p).data = NoneVal
            /\ RetResponse(p).missing_fields = NoneVal
            /\ RetResponse(p).status = StatusResolved
            /\ RetResponse(p).status # StatusMissingInfo

\* alcateia with pedido 999 has been declined
C1_Witness ==
    \E p \in Callers :
        /\ Answered(p)
        /\ MergedValue(req[p], "distribuidor") = <<"a", "l", "c", "a", "t", "e", "i", "a">>
        /\ MergedValue(req[p], "pedido") = <<"9", "9", "9">>
        /\ RetResponse(p).response_text = UnsupportedText(RetQuery(p).distribuidor)

\* the outcomes a response shows: the decline text, the missing-fields list, the payload
OutcomesOf(response) ==
    (IF response.response_text = UnsupportedText(response.distribuidor)
     THEN {"unsupported"} ELSE {})
    \cup (IF response.status = StatusMissingInfo \/ response.missing_fields # NoneVal
          THEN {"missing_info"} ELSE {})
    \cup (IF response.data # NoneVal THEN {"resolved"} ELSE {})

\* C2: a turn that is answered has exactly one of the outcomes unsupported,
\* missing_info, resolved, whichever of distribuidor, pedido, nota_fiscal it knows
C2_ExactlyOneOutcome ==
    \A p \in Callers : Answered(p) => Cardinality(OutcomesOf(RetResponse(p))) = 1

\* an unsupported distribuidor with neither pedido nor nota_fiscal: declined only
C2_Witness ==
    \E p \in Callers :
        /\ Answered(p)
        /\ Unsupported(req[p])
        /\ ~Truthy(MergedValue(req[p], "pedido"))
        /\ ~Truthy(MergedValue(req[p], "nota_fiscal"))
        /\ OutcomesOf(RetResponse(p)) = {"unsupported"}

\* the keys of Keys the turn has no value for
AbsentKeys(r) == {k \in KeySet : ~Truthy(MergedValue(r, k))}

\* C3: no distribuidor, or a supported one with neither pedido nor nota_fiscal,
\* gives missing_info, and missing_fields lists exactly the absent keys
C3_MissingInfo ==
    \A p \in Callers :
        /\ Answered(p)
        /\ \/ ~Truthy(MergedValue(req[p], "distribuidor"))
           \/ /\ ~Unsupported(req[p])
              /\ ~Truthy(MergedValue(req[p], "pedido"))
              /\ ~Truthy(MergedValue(req[p], "nota_fiscal"))
        => /\ RetResponse(p).status = StatusMissingInfo
           /\ RetResponse(p).missing_fields # NoneVal
           /\ {RetResponse(p).missing_fields[i] :
                  i \in 1..Len(RetResponse(p).missing_fields)} = AbsentKeys(req[p])
           /\ Len(RetResponse(p).missing_fields) = Cardinality(AbsentKeys(req[p]))

\* a turn that knows nothing lists all three keys
C3_Witness ==
    \E p \in Callers :
        /\ Answered(p)
        /\ AbsentKeys(req[p]) = KeySet
        /\ RetResponse(p).missing_fields = Keys

\* C4: a supported distribuidor with a pedido or a nota_fiscal gives resolved with
\* the mock payload, and the text names the distribuidor and the pedido, or the
\* nota_fiscal when there is no pedido
C4_Resolved ==
    \A p \in Callers :
        /\ Answered(p)
        /\ Truthy(MergedValue(req[p], "distribuidor"))
        /\ ~Unsupported(req[p])
        /\ Truthy(MergedValue(req[p], "pedido")) \/ Truthy(MergedValue(req[p], "nota_fiscal"))
        => /\ RetResponse(p).status = StatusResolved
           /\ RetResponse(p).data = MockData
           /\ Contains(RetResponse(p).response_text, MergedValue(req[p], "distribuidor"))
           /\ Contains(RetResponse(p).response_text,
                       IF Truthy(MergedValue(req[p], "pedido"))
                       THEN MergedValue(req[p], "pedido")
                       ELSE MergedValue(req[p], "nota_fiscal"))

\* Officer with pedido 112233 and nota_fiscal 7: the text names the pedido
C4_Witness ==
    \E p \in Callers :
        /\ Answered(p)
        /\ MergedValue(req[p], "distribuidor") = <<"O", "f", "f", "i", "c", "e", "r">>
        /\ MergedValue(req[p], "pedido") = <<"1", "1", "2", "2", "3", "3">>
        /\ MergedValue(req[p], "nota_fiscal") = <<"7">>
        /\ RetResponse(p).status = StatusResolved
        /\ Contains(RetResponse(p).response_text, <<"1", "1", "2", "2", "3", "3">>)

(***************************************************************************)
(* Properties of the session across turns                                  *)
(***************************************************************************)
\* the session of caller p's turn as it was stored when the turn started
HistoryBefore(p) ==
    IF req[p].session_id \in DOMAIN req[p].before
    THEN req[p].before[req[p].session_id].history ELSE <<>>

ContextBefore(p) ==
    IF req[p].session_id \in DOMAIN req[p].before
    THEN req[p].before[req[p].session_id].context ELSE EmptyMap

\* the history entry of the turn caller p got back
TurnEntry(p) ==
    [query |-> RetQuery(p).query_text, response |-> RetResponse(p).response_text,
     entities |-> RetQuery(p).entities]

\* C5: when the first entry of a session comes from a turn that yielded only a
\* distribuidor and the next answered turn on it yields only a pedido, the context
\* after that turn holds the distribuidor of the first and the pedido of the second
C5_TwoTurnsMerge ==
    \A p \in Callers :
        /\ Answered(p)
        /\ req[p].session_id \in DOMAIN store
        /\ Len(store[req[p].session_id].history) = 2
        /\ OnlyKeys(store[req[p].session_id].history[1].entities, {"distribuidor"})
        /\ OnlyKeys(req[p].extracted, {"pedido"})
        => /\ Get(store[req[p].session_id].context, "distribuidor") =
                 store[req[p].session_id].history[1].entities["distribuidor"]
           /\ Get(store[req[p].session_id].context, "pedido") = req[p].extracted["pedido"]

\* "na Officer" and then "pedido 12" on the session of the first turn
C5_Witness ==
    \E p \in Callers :
        /\ Answered(p)
        /\ req[p].session_id \in DOMAIN store
        /\ Len(store[req[p].session_id].history) = 2
        /\ store[req[p].session_id].history[1].query = T_na_officer
        /\ OnlyKeys(store[req[p].session_id].history[1].entities, {"distribuidor"})
        /\ req[p].query_text = T_pedido
        /\ OnlyKeys(req[p].extracted, {"pedido"})
        /\ OnlyKeys(store[req[p].session_id].context, {"distribuidor", "pedido"})

\* C6: a step never removes a key from a stored context, and changes the value of a
\* key only as the write of a turn whose own extraction gave that key the new value
C6_ContextAdditive ==
    [][\A sid \in DOMAIN store :
          \A key \in DOMAIN store[sid].context :
             /\ key \in DOMAIN store'[sid].context
             /\ store'[sid].context[key] # store[sid].context[key] =>
                   \E p \in Callers :
                      /\ req[p].session_id = sid
                      /\ pc[p] \in {"add_write", "err_write"}
                      /\ pc'[p] = "idle"
                      /\ key \in DOMAIN req[p].extracted
                      /\ Truthy(req[p].extracted[key])
                      /\ store'[sid].context[key] = req[p].extracted[key]]_vars

\* a later turn gave a new pedido and did not mention the distribuidor: the pedido
\* of the context is the new one and the distribuidor is the one it was
C6_Witness ==
    \E p \in Callers :
        /\ Returned(p)
        /\ req[p].session_id \in DOMAIN store
        /\ "pedido" \in DOMAIN ContextBefore(p)
        /\ "distribuidor" \in DOMAIN ContextBefore(p)
        /\ "distribuidor" \notin DOMAIN req[p].extracted
        /\ store[req[p].session_id].context["pedido"] # ContextBefore(p)["pedido"]
        /\ store[req[p].session_id].context["distribuidor"] = ContextBefore(p)["distribuidor"]

\* the stored session of caller p's turn has one more entry, the turn's, and its
\* context holds every value the turn knows
TurnRecorded(p) ==
    /\ req[p].session_id \in DOMAIN store
    /\ store[req[p].session_id].history = Append(HistoryBefore(p), TurnEntry(p))
    /\ \A key \in KeySet :
          Truthy(MergedValue(req[p], key)) =>
             Get(store[req[p].session_id].context, key) = MergedValue(req[p], key)

\* C7 as the specification states it: after every turn, the error outcome included,
\* the history has exactly one new entry and the context holds every known value
C7_EveryTurnRecorded == \A p \in Callers : Returned(p) => TurnRecorded(p)

\* C7, amended: an answered turn leaves exactly one new entry with its query text,
\* response text and entities and a context holding every value it knows; a turn
\* that ends in error leaves at most one new entry, the error text with an empty
\* entity map, writes nothing to the context, and leaves no entry at all when there
\* is no stored session or the append fails
C7_TurnRecorded ==
    \A p \in Callers :
        /\ Answered(p) => TurnRecorded(p)
        /\ Returned(p) /\ ~Answered(p) =>
              /\ TurnEntry(p).entities = EmptyMap
              /\ IF req[p].session_id \in DOMAIN store
                 THEN /\ store[req[p].session_id].context = ContextBefore(p)
                      /\ \/ store[req[p].session_id].history = HistoryBefore(p)
                         \/ store[req[p].session_id].history =
                               Append(HistoryBefore(p), TurnEntry(p))
                      /\ req[p].swallowed =>
                            store[req[p].session_id].history = HistoryBefore(p)
                 ELSE store = req[p].before

\* an error turn whose entry was appended, after a turn that extracted a value
\* which the context does not get
C7_Witness ==
    \E p \in Callers :
        /\ Returned(p)
        /\ ~Answered(p)
        /\ req[p].session_id \in DOMAIN store
        /\ store[req[p].session_id].history = Append(HistoryBefore(p), TurnEntry(p))
        /\ \E key \in KeySet :
              /\ Truthy(MergedValue(req[p], key))
              /\ key \notin DOMAIN store[req[p].session_id].context

\* C8: no exception leaves process_query; a turn in which the store raised returns
\* status error with the description of the exception in its message, after one
\* attempt to append the failed turn, whose own failure changes nothing of that
C8_NeverPropagates ==
    \A p \in Callers :
        /\ pc[p] # "raised"
        /\ pc[p] \in {"err_read", "err_write"} => req[p].raised # NoneVal
        /\ Returned(p) /\ req[p].raised # NoneVal =>
              /\ RetResponse(p).status = StatusError
              /\ RetResponse(p).error = ErrorMessage(req[p].raised)
              /\ Contains(RetResponse(p).response_text, req[p].raised)
              /\ req[p].appends = 1
              /\ RetQuery(p) = QueryNew(req[p].session_id, req[p].query_text)
        /\ Returned(p) /\ req[p].raised = NoneVal =>
              /\ RetResponse(p).status # StatusError
              /\ req[p].appends = 0
              /\ ~req[p].swallowed

\* the append of a failed turn failed too, and the error outcome was returned
C8_Witness ==
    \E p \in Callers :
        /\ Returned(p)
        /\ req[p].raised = E_set
        /\ req[p].swallowed
        /\ req[p].appends = 1
        /\ RetResponse(p).status = StatusError

(***************************************************************************)
(* Properties of the extractor                                             *)
(***************************************************************************)
\* C9: a call in which the pipeline raises returns the heuristic result for its
\* text and raises nothing, and the call after it runs the pipeline again
C9_TransientFailure ==
    calls > 0 =>
        /\ lastCall.out.raised =>
              /\ lastCall.result = fallback_extraction(lastCall.text)
              /\ lastCall.handled
              /\ ~lastCall.raises
              /\ lastCall.pipeline_runs = 1
        /\ lastCall.prev_raised => lastCall.pipeline_runs = 1

\* the pipeline raised in the first call and gave spans in the second
C9_Witness ==
    /\ calls = 2
    /\ lastCall.prev_raised
    /\ ~lastCall.out.raised
    /\ lastCall.out.entities # <<>>
    /\ lastCall.pipeline_runs = 1
    /\ lastCall.result # fallback_extraction(lastCall.text)

\* the result the extractor's tier gives for the last call
TierResult ==
    IF extractor.ner_pipeline = NoPipeline \/ lastCall.out.raised
    THEN fallback_extraction(lastCall.text)
    ELSE IF extractor.is_fallback
    THEN process_fallback_entities(lastCall.out.entities, lastCall.text)
    ELSE process_entities(lastCall.out.entities, lastCall.text)

\* C10: construction ends with an extractor whatever loads: the primary pipeline
\* and is_fallback false when the primary loads; else the secondary and is_fallback
\* true when one is configured and loads; else no pipeline, and then every call
\* returns the heuristic result without running a pipeline
C10_ConstructionCascade ==
    /\ extractor.state # "raised"
    /\ extractor.state = "ready" =>
          /\ loads.primary =>
                extractor.ner_pipeline = "primary" /\ ~extractor.is_fallback
          /\ ~loads.primary /\ loads.secondary =>
                extractor.ner_pipeline = "secondary" /\ extractor.is_fallback
          /\ ~loads.primary /\ ~loads.secondary =>
                extractor.ner_pipeline = NoPipeline
          /\ calls > 0 =>
                /\ lastCall.result = TierResult
                /\ lastCall.pipeline_runs = IF extractor.ner_pipeline = NoPipeline THEN 0 ELSE 1

\* both loads failed with a fallback model configured, and a call found a pedido
C10_Witness ==
    /\ extractor.state = "ready"
    /\ extractor.fallback_model
    /\ ~loads.primary
    /\ ~loads.secondary
    /\ extractor.ner_pipeline = NoPipeline
    /\ calls > 0
    /\ lastCall.pipeline_runs = 0
    /\ "pedido" \in DOMAIN lastCall.result

\* the entity map the normalization pass of the extractor's tier gives for the last call
Normalized ==
    IF extractor.is_fallback THEN scan_entities(lastCall.out.entities, lastCall.text)
    ELSE map_entities(lastCall.out.entities)

\* C11: when the pipeline call succeeds, an empty normalized map makes the call
\* return the heuristic result for the same text, and a non-empty normalized map is
\* returned as it is
C11_CoverageGap ==
    calls > 0 /\ extractor.ner_pipeline # NoPipeline /\ ~lastCall.out.raised =>
        IF Normalized = EmptyMap
        THEN lastCall.result = fallback_extraction(lastCall.text)
        ELSE lastCall.result = Normalized

\* the primary pipeline gave a span with a label the mapping does not know, and the
\* call returned what the heuristics find in the text
C11_Witness ==
    /\ calls > 0
    /\ extractor.ner_pipeline = "primary"
    /\ ~lastCall.out.raised
    /\ lastCall.out.entities # <<>>
    /\ Normalized = EmptyMap
    /\ lastCall.result = fallback_extraction(lastCall.text)
    /\ lastCall.result # EmptyMap

(***************************************************************************)
(* Turns of two callers on one stored session, interleaved at the accesses *)
(* to the session store, which does not raise in these runs                *)
(***************************************************************************)
RaceId == 1

\* the turn that created the session: 'na Officer', handled by the heuristic
RaceFirstTurn ==
    Outcome([IdleReq EXCEPT !.query_text = T_na_officer], RaceId, EmptyMap,
            from_entities(RaceId, T_na_officer, fallback_extraction(T_na_officer)))

\* the session as that turn stored it: one entry, the distribuidor in the context
RaceSession ==
    add_interaction_session(SessionNew(RaceId), RaceFirstTurn.query, RaceFirstTurn.response)

\* the texts of the turns that follow
RaceTexts == {T_alcateia_pedido, T_pedido, T_nf}

RaceInit ==
    /\ extractor \in ExtractorModes
    /\ loads = Loaded(TRUE, extractor.ner_pipeline = "primary", extractor.is_fallback)
    /\ store = StoreSet(EmptyStore, RaceId, RaceSession)
    /\ pc = [p \in Callers |-> "idle"]
    /\ req = [p \in Callers |-> IdleReq]
    /\ ret = [p \in Callers |-> <<>>]
    /\ nextId = RaceId
    /\ turns = 0
    /\ faults = MaxFaultyTurns
    /\ lastCall = NoCall
    /\ calls = 0
    /\ ops = NoOps

\* process_query on the stored session, up to the response
RaceProcessQuery(p) ==
    /\ pc[p] = "idle"
    /\ turns < MaxTurns
    /\ turns' = turns + 1
    /\ ret' = [ret EXCEPT ![p] = <<>>]
    /\ \E text \in RaceTexts : ProcessQueryBuild(p, RaceId, text)
    /\ UNCHANGED <<loads, lastCall, calls, ops>>

RaceStep(p) ==
    \/ RaceProcessQuery(p)
    \/ AddInteractionGet(p)
    \/ AddInteractionUpdate(p)

RaceNext == \E p \in Callers : RaceStep(p)

RaceSpec == RaceInit /\ [][RaceNext]_vars

(***************************************************************************)
(* MemoryStorage on its own: any sequence of set, delete, get and exists   *)
(***************************************************************************)
MaxIds == 2

StorageIds == 1..MaxIds

\* the dictionaries a caller stores
StoredValues == {EmptyMap, [active |-> TRUE], [active |-> FALSE]}

\* self.storage.get(session_id, {})
memory_get(st, id) == IF id \in DOMAIN st THEN st[id] ELSE EmptyMap

\* session_id in self.storage
memory_exists(st, id) == id \in DOMAIN st

\* a variant of memory_delete: the whole storage is cleared
memory_delete_clears(st, id) == EmptyStore

\* if session_id in self.storage: del self.storage[session_id]
memory_delete(st, id) ==
    IF id \in DOMAIN st THEN [x \in DOMAIN st \ {id} |-> st[x]] ELSE st

\* the record of a call: the last set or delete on each id, and the call itself
OpsAfter(last, op, id, result) ==
    [last |-> last, op |-> op, id |-> id, result |-> result, before |-> store]

StorageInit == ExtractInit

MemorySet ==
    \E id \in StorageIds, context \in StoredValues :
        /\ store' = StoreSet(store, id, context)
        /\ ops' = OpsAfter(Put(ops.last, id, [op |-> "set", context |-> context]),
                           "set", id, NoneVal)
        /\ UNCHANGED <<extractor, loads, pc, req, ret, nextId, turns, faults, lastCall, calls>>

MemoryDelete ==
    \E id \in StorageIds :
        /\ store' = memory_delete(store, id)
        /\ ops' = OpsAfter(Put(ops.last, id, [op |-> "delete", context |-> NoneVal]),
                           "delete", id, NoneVal)
        /\ UNCHANGED <<extractor, loads, pc, req, ret, nextId, turns, faults, lastCall, calls>>

MemoryGet ==
    \E id \in StorageIds :
        /\ store' = store
        /\ ops' = OpsAfter(ops.last, "get", id, memory_get(store, id))
        /\ UNCHANGED <<extractor, loads, pc, req, ret, nextId, turns, faults, lastCall, calls>>

MemoryExists ==
    \E id \in StorageIds :
        /\ store' = store
        /\ ops' = OpsAfter(ops.last, "exists", id, memory_exists(store, id))
        /\ UNCHANGED <<extractor, loads, pc, req, ret, nextId, turns, faults, lastCall, calls>>

StorageNext == MemorySet \/ MemoryDelete \/ MemoryGet \/ MemoryExists

StorageSpec == StorageInit /\ [][StorageNext]_vars

(***************************************************************************)
(* The context merge on its own: enrich_query_from_context and the context *)
(* update of add_interaction, applied to any extraction and any context    *)
(***************************************************************************)
\* the value an extraction gives a key, and the value a context holds for it
FreshValue ==
    [distribuidor |-> <<"I", "n", "g", "r", "a", "m">>, pedido |-> <<"1", "2">>,
     nota_fiscal |-> <<"7">>]

KnownValue ==
    [distribuidor |-> <<"O", "f", "f", "i", "c", "e", "r">>, pedido |-> <<"3", "4">>,
     nota_fiscal |-> <<"8">>]

\* the entity maps of a turn: each key absent, the empty string, or its fresh value
MergeExtractions ==
    {[k \in {x \in KeySet : f[x] # "absent"} |->
        IF f[k] = "empty" THEN <<>> ELSE FreshValue[k]] :
        f \in [KeySet -> {"absent", "empty", "fresh"}]}

\* the session contexts: each key absent or its known value
MergeContexts == {[k \in keys |-> KnownValue[k]] : keys \in SUBSET KeySet}

\* the turn's local state with the session object add_interaction would store
Recorded(r) ==
    [r EXCEPT !.session =
        add_interaction_session([SessionNew(r.session_id) EXCEPT !.context = r.context],
                                r.query, r.response)]

MergeInit ==
    /\ extractor \in ExtractorModes
    /\ loads = Loaded(TRUE, extractor.ner_pipeline = "primary", extractor.is_fallback)
    /\ InitService

\* one turn from the extraction onward, on a session that holds context
MergeTurn ==
    /\ calls < MaxCalls
    /\ calls' = calls + 1
    /\ \E entities \in MergeExtractions, context \in MergeContexts :
          req' = [req EXCEPT ![SeqCaller] =
                    Recorded(Outcome(EnterReq(UnknownId, T_oi), UnknownId, context,
                                     from_entities(UnknownId, T_oi, entities)))]
    /\ UNCHANGED <<extractor, loads, store, pc, ret, nextId, turns, faults, lastCall, ops>>

MergeSpec == MergeInit /\ [][MergeTurn]_vars

\* the turn the merge was applied to
MergedTurn == req[SeqCaller]

\* C12: the merged query has the context's value for a key exactly when the turn's
\* extraction left the key unset and the context holds it; otherwise the key is as
\* the extraction left it, so a value of the turn is never replaced
C12_EnrichIffUnset ==
    calls > 0 =>
        \A key \in KeySet :
            IF ~Truthy(Get(MergedTurn.extracted, key)) /\ key \in DOMAIN MergedTurn.context
            THEN /\ MergedTurn.query[key] = MergedTurn.context[key]
                 /\ Get(MergedTurn.query.entities, key) = MergedTurn.context[key]
            ELSE /\ MergedTurn.query[key] = Get(MergedTurn.extracted, key)
                 /\ key \in DOMAIN MergedTurn.query.entities <=>
                       key \in DOMAIN MergedTurn.extracted
                 /\ Get(MergedTurn.query.entities, key) = Get(MergedTurn.extracted, key)

\* the turn gave a distribuidor and no pedido, the context holds both: the query has
\* the turn's distribuidor and the context's pedido
C12_Witness ==
    /\ calls > 0
    /\ Get(MergedTurn.extracted, "distribuidor") = FreshValue["distribuidor"]
    /\ "pedido" \notin DOMAIN MergedTurn.extracted
    /\ MergedTurn.context = [k \in {"distribuidor", "pedido"} |-> KnownValue[k]]
    /\ MergedTurn.query.distribuidor = FreshValue["distribuidor"]
    /\ MergedTurn.query.pedido = KnownValue["pedido"]
    /\ MergedTurn.query.nota_fiscal = NoneVal

\* C13: merging the context into the merged query again changes nothing; an
\* extraction with no value gives a query with the context's three values; and the
\* context stored after the turn still has every key it had before
C13_MergeIdempotentAdditive ==
    calls > 0 =>
        /\ enrich_query_from_context(MergedTurn.query, MergedTurn.context) = MergedTurn.query
        /\ MergedTurn.extracted = EmptyMap /\ MergedTurn.context # EmptyMap =>
              \A key \in KeySet : MergedTurn.query[key] = Get(MergedTurn.context, key)
        /\ \A key \in DOMAIN MergedTurn.context : key \in DOMAIN MergedTurn.session.context

\* an empty extraction on a context with all three keys
C13_Witness ==
    /\ calls > 0
    /\ MergedTurn.extracted = EmptyMap
    /\ MergedTurn.context = KnownValue
    /\ \A key \in KeySet : MergedTurn.query[key] = KnownValue[key]
    /\ MergedTurn.session.context = KnownValue

\* value is no value, or the one the turn's extraction or the context it read has for key
FromTurnOrContext(r, key, value) ==
    \/ value = NoneVal
    \/ key \in DOMAIN r.extracted /\ value = r.extracted[key]
    \/ key \in DOMAIN r.context /\ value = r.context[key]

\* C15: every distribuidor, pedido and nota_fiscal of the query and of the response a
\* turn returns is the value the extraction gave for the turn's text or the value
\* the session context held when the turn read the session
C15_NoInventedValue ==
    \A p \in Callers :
        Returned(p) =>
            \A key \in KeySet :
                /\ FromTurnOrContext(req[p], key, RetQuery(p)[key])
                /\ FromTurnOrContext(req[p], key, RetResponse(p)[key])
                /\ key \in DOMAIN RetQuery(p).entities =>
                      FromTurnOrContext(req[p], key, RetQuery(p).entities[key])

\* a returned turn whose pedido is the one extracted and whose distribuidor is the
\* one of the context, the extraction having none
C15_Witness ==
    \E p \in Callers :
        /\ Answered(p)
        /\ "distribuidor" \notin DOMAIN req[p].extracted
        /\ "distribuidor" \in DOMAIN req[p].context
        /\ RetResponse(p).distribuidor = req[p].context["distribuidor"]
        /\ "pedido" \in DOMAIN req[p].extracted
        /\ RetResponse(p).pedido = req[p].extracted["pedido"]
        /\ RetQuery(p).pedido = req[p].extracted["pedido"]
        /\ RetResponse(p).nota_fiscal = NoneVal

\* the id given to the turn of caller p resolved to no stored session
Unresolved(p) == req[p].arg_id \notin DOMAIN req[p].before

LastWasSet(id) == id \in DOMAIN ops.last /\ ops.last[id].op = "set"

\* what get(id) has to return: the dictionary of the last set, or the empty one
LastValue(id) == IF LastWasSet(id) THEN ops.last[id].context ELSE EmptyMap

\* C18: after any sequence of set and delete, exists(id) is true exactly when the
\* last of them on id was a set, get(id) is the dictionary of that set or the empty
\* dictionary when id is absent, the results returned by get and exists are those,
\* and a delete of an absent id leaves the storage as it was
C18_StorageContract ==
    /\ \A id \in StorageIds :
          /\ memory_exists(store, id) <=> LastWasSet(id)
          /\ memory_get(store, id) = LastValue(id)
    /\ ops.op = "get" => ops.result = LastValue(ops.id)
    /\ ops.op = "exists" => ops.result = LastWasSet(ops.id)
    /\ ops.op = "delete" /\ ops.id \notin DOMAIN ops.before => store = ops.before

\* a get of an id that was set, deleted and deleted again while another id is stored
C18_Witness ==
    /\ ops.op = "delete"
    /\ ops.id \notin DOMAIN ops.before
    /\ ops.before # EmptyStore
    /\ store = ops.before
    /\ \E id \in StorageIds : LastWasSet(id) /\ memory_get(store, id) = [active |-> TRUE]

\* the last call's result comes from the heuristic extractor
HeuristicRan ==
    \/ extractor.ner_pipeline = NoPipeline
    \/ lastCall.out.raised
    \/ Normalized = EmptyMap

\* C16 as the specification states it: a text that has a supported name as a whole
\* word gives that name as it is written under distribuidor, whichever tier ran
C16_NameAsWritten ==
    calls > 0 =>
        \A d \in DistributorTexts :
            lastCall.text = d.text => Get(lastCall.result, "distribuidor") = d.distribuidor

\* the result of the last call has the digit runs that n names under their keys
HasRuns(n) ==
    /\ n.pedido # NoneVal => Get(lastCall.result, "pedido") = n.pedido
    /\ n.nota_fiscal # NoneVal => Get(lastCall.result, "nota_fiscal") = n.nota_fiscal

\* C17 as the specification states it: whatever comes after the digit run that
\* follows the keyword, the heuristic extractor returns that run under the key
C17_EveryDigitRun ==
    calls > 0 /\ HeuristicRan =>
        \A n \in NumberedTexts \cup GluedTexts : lastCall.text = n.text => HasRuns(n)

\* C17, amended: when the heuristic extractor runs on a text in which pedido or
\* order is followed, after an optional ':' or '#', by a digit run that ends at a
\* word boundary, the result has that run under pedido; likewise nota fiscal or nf
\* and nota_fiscal; a text with both has both keys, each with the run that follows
\* its keyword; a run that runs into a letter or '_' is not taken: the result is empty
C17_KeywordNumbers ==
    calls > 0 /\ HeuristicRan =>
        /\ \A n \in NumberedTexts \cup GluedTexts :
              lastCall.text = n.text => lastCall.result = fallback_extraction(n.text)
        /\ \A n \in NumberedTexts : lastCall.text = n.text => HasRuns(n)
        /\ \A n \in GluedTexts : lastCall.text = n.text => lastCall.result = EmptyMap

\* the heuristic extractor ran on a text with nf, '#' and 7 before Pedido, ':' and 12
C17_Witness ==
    /\ calls > 0
    /\ HeuristicRan
    /\ \E n \in NumberedTexts :
          /\ lastCall.text = n.text
          /\ n.pedido = <<"1", "2">>
          /\ n.nota_fiscal = <<"7">>
          /\ Contains(n.text, <<"#">>)
          /\ Find(n.text, <<"7">>) < Find(n.text, <<"1", "2">>)
          /\ lastCall.result = [pedido |-> <<"1", "2">>, nota_fiscal |-> <<"7">>]

\* the history and the context of the session the interleaved turns work on
RaceHistory == store[RaceId].history

RaceContext == store[RaceId].context

\* the turns that have returned
Completed == turns - Cardinality({p \in Callers : pc[p] # "idle"})

\* C14 as the specification states it: under any interleaving of turns on a session
\* every step leaves the stored entries where they are, in their order, and the
\* history has one entry for each completed turn (after the entry the session had)
C14_AppendOnlyHistory ==
    [][/\ Len(RaceHistory) <= Len(RaceHistory')
       /\ SubSeq(RaceHistory', 1, Len(RaceHistory)) = RaceHistory
       /\ Len(RaceHistory') = Len(RaceSession.history) + Completed']_vars

\* C19 as the specification states it: a value of the stored context is replaced
\* only by the write of a turn whose own extraction produced the new value; a value
\* a turn copied from the context it read earlier replaces nothing
C19_ReplacedByExtractionOnly ==
    [][\A key \in DOMAIN RaceContext :
          Get(RaceContext', key) # RaceContext[key] =>
              \E p \in Callers :
                  /\ pc[p] = "add_write"
                  /\ pc'[p] = "idle"
                  /\ Get(req[p].extracted, key) = Get(RaceContext', key)]_vars

\* the number of times tier occurs in the tiers the last call consulted
TierRuns(tier) == Cardinality({i \in 1..Len(lastCall.tiers) : lastCall.tiers[i] = tier})

\* the pipeline's spans of the last call normalize to an empty map
NormalizedEmpty ==
    /\ ~lastCall.out.raised
    /\ ~SpansRaise(extractor, lastCall.out.entities)
    /\ Normalized = EmptyMap

\* C21: a call invokes the pipeline at most once, and only when one is loaded; the
\* heuristic extractor runs at most once, after the pipeline if that ran, and
\* exactly when no pipeline is loaded, the pipeline or the normalization of its
\* spans raised, or the normalized map is empty
C21_TierCascade ==
    calls > 0 =>
        /\ lastCall.tiers \in {<<"heuristic">>, <<"pipeline">>, <<"pipeline", "heuristic">>}
        /\ TierRuns("pipeline") = lastCall.pipeline_runs
        /\ TierRuns("pipeline") = 1 <=> extractor.ner_pipeline # NoPipeline
        /\ TierRuns("heuristic") = 1 <=>
              \/ extractor.ner_pipeline = NoPipeline
              \/ lastCall.out.raised
              \/ SpansRaise(extractor, lastCall.out.entities)
              \/ NormalizedEmpty
        /\ TierRuns("heuristic") = 1 => lastCall.result = fallback_extraction(lastCall.text)

\* the normalization of a malformed span raised in the secondary tier: one pipeline
\* call, then the heuristic, which found a pedido
C21_Witness ==
    /\ calls > 0
    /\ extractor.is_fallback
    /\ lastCall.out = MalformedOut
    /\ lastCall.tiers = <<"pipeline", "heuristic">>
    /\ lastCall.handled
    /\ "pedido" \in DOMAIN lastCall.result

\* the extractor is in one of its three modes
InOneMode(self) ==
    <<self.ner_pipeline, self.is_fallback>> \in
        {<<"primary", FALSE>>, <<"secondary", TRUE>>, <<NoPipeline, FALSE>>}

\* C22: every step that leaves a constructed extractor leaves it in exactly one of
\* the modes primary (is_fallback false), secondary (is_fallback true) and no
\* pipeline (is_fallback false), so is_fallback implies a loaded pipeline, and a
\* step from a constructed extractor, which is an extract_entities call that
\* succeeded or failed, leaves the extractor as it was
C22_ModeNeverChanges ==
    [][extractor'.state = "ready" =>
          /\ InOneMode(extractor')
          /\ extractor'.is_fallback => extractor'.ner_pipeline # NoPipeline
          /\ extractor.state = "ready" => extractor' = extractor]_vars

\* a second call on the secondary model after a call in which the pipeline raised
C22_Witness ==
    /\ calls > 1
    /\ lastCall.prev_raised
    /\ ~lastCall.out.raised
    /\ extractor.ner_pipeline = "secondary"
    /\ extractor.is_fallback
    /\ lastCall.tiers = <<"pipeline">>

\* the spans <<start, end>> of the standalone digit runs of s from offset pos on
RECURSIVE RunSpansFrom(_, _)
RunSpansFrom(s, pos) ==
    IF pos >= Len(s) THEN <<>>
    ELSE LET e == SkipDigits(s, pos)
         IN  IF e > pos /\ WordBoundary(s, pos) /\ WordBoundary(s, e)
             THEN <<(<<pos, e>>)>> \o RunSpansFrom(s, e)
             ELSE RunSpansFrom(s, pos + 1)

\* the lowercase text before the run at span sp has one of the words
KeywordBefore(text, sp, words) ==
    \E w \in words : Contains(lower(Slice(text, 0, sp[1])), w)

NotaBefore(text, sp) == KeywordBefore(text, sp, {W_nota, W_fiscal, W_nf})

PedidoBefore(text, sp) ==
    ~NotaBefore(text, sp) /\ KeywordBefore(text, sp, {W_pedido, W_order})

\* the last call ran the heuristic extractor and neither pattern matched its text
BareRunsStep ==
    /\ calls > 0
    /\ HeuristicRan
    /\ pedido_pattern(lastCall.text) = NoneVal
    /\ nf_pattern(lastCall.text) = NoneVal

\* the last of the runs of text that satisfy Cond, NoneVal when there is none
LastRunWhere(text, Cond(_, _)) ==
    LET spans == RunSpansFrom(text, 0)
        hits == {i \in 1..Len(spans) : Cond(text, spans[i])}
    IN  IF hits = {} THEN NoneVal
        ELSE LET i == CHOOSE x \in hits : \A y \in hits : y <= x
             IN  Slice(text, spans[i][1], spans[i][2])

\* C23 as the specification states it: in step 4 a digit run with nota, fiscal or
\* nf in the lowercase text before its own occurrence is classified as nota_fiscal,
\* and otherwise one with pedido or order before its own occurrence as pedido, so
\* the result has under each key the last run so classified
C23_ClassifiedByOwnOccurrence ==
    BareRunsStep =>
        /\ LastRunWhere(lastCall.text, NotaBefore) # NoneVal =>
              Get(lastCall.result, "nota_fiscal") = LastRunWhere(lastCall.text, NotaBefore)
        /\ LastRunWhere(lastCall.text, PedidoBefore) # NoneVal =>
              Get(lastCall.result, "pedido") = LastRunWhere(lastCall.text, PedidoBefore)

\* the digit run of text at span sp
RunAt(text, sp) == Slice(text, sp[1], sp[2])

AnyKeywordBefore(text, sp) ==
    KeywordBefore(text, sp, {W_nota, W_fiscal, W_nf, W_pedido, W_order})

\* C24: when the heuristic extractor runs and the pedido or the nota fiscal pattern
\* matched, pedido and nota_fiscal are what the patterns found and the bare digit
\* runs are not looked at; when neither matched and the first bare run has no
\* keyword before it, that run is assigned to pedido, and the pedido of the result
\* is that run unless a run with pedido or order before it was assigned afterwards:
\* no later run without a keyword replaces it
C24_DefaultRuleOnce ==
    calls > 0 /\ HeuristicRan =>
        LET text == lastCall.text
            spans == RunSpansFrom(text, 0)
        IN  /\ ~BareRunsStep =>
                  /\ Get(lastCall.result, "pedido") = pedido_pattern(text)
                  /\ Get(lastCall.result, "nota_fiscal") = nf_pattern(text)
            /\ BareRunsStep /\ spans # <<>> /\ ~AnyKeywordBefore(text, spans[1]) =>
                  /\ "pedido" \in DOMAIN lastCall.result
                  /\ \/ lastCall.result.pedido = RunAt(text, spans[1])
                     \/ \E i \in 2..Len(spans) :
                           /\ KeywordBefore(text, spans[i], {W_pedido, W_order})
                           /\ lastCall.result.pedido = RunAt(text, spans[i])

\* two different bare runs, neither with a keyword before it: the first is the pedido
C24_Witness ==
    /\ BareRunsStep
    /\ LET spans == RunSpansFrom(lastCall.text, 0)
       IN  /\ Len(spans) >= 2
           /\ ~AnyKeywordBefore(lastCall.text, spans[2])
           /\ RunAt(lastCall.text, spans[1]) # RunAt(lastCall.text, spans[2])
           /\ Get(lastCall.result, "pedido") = RunAt(lastCall.text, spans[1])
           /\ "nota_fiscal" \notin DOMAIN lastCall.result

\* the last call ran the pipeline named and the pipeline returned spans
TierReturned(pipeline) ==
    /\ calls > 0
    /\ extractor.ner_pipeline = pipeline
    /\ ~lastCall.out.raised
    /\ ~SpansRaise(extractor, lastCall.out.entities)

\* the word of the first or of the last of the spans at the indexes, NoneVal without one
WordOfFirst(entities, indexes) ==
    IF indexes = {} THEN NoneVal
    ELSE strip(entities[CHOOSE i \in indexes : \A j \in indexes : i <= j].word)

WordOfLast(entities, indexes) ==
    IF indexes = {} THEN NoneVal
    ELSE strip(entities[CHOOSE i \in indexes : \A j \in indexes : j <= i].word)

\* the map with the values that are not NoneVal under the three keys
MapOf(distribuidor, pedido, nota_fiscal) ==
    PutIfFound(PutIfFound(PutIfFound(EmptyMap, "distribuidor", distribuidor),
                          "pedido", pedido),
               "nota_fiscal", nota_fiscal)

\* the lowercase text before the span has one of the words
SpanAfter(text, span, words) ==
    \E w \in words : Contains(lower(Slice(text, 0, span.start)), w)

\* what C25 says the secondary tier makes of the spans
SecondaryExpected(entities, text) ==
    LET orgs == {i \in 1..Len(entities) : EndsWith(entities[i].entity, S_ORG)}
        nums == {i \in 1..Len(entities) :
                    /\ \/ EndsWith(entities[i].entity, S_CARDINAL)
                       \/ EndsWith(entities[i].entity, S_NUM)
                    /\ \E c \in 1..Len(entities[i].word) : entities[i].word[c] \in Digits}
        asPedido == {i \in nums : SpanAfter(text, entities[i], {W_pedido, W_order})}
        asNota == {i \in nums \ asPedido :
                      SpanAfter(text, entities[i], {W_nota, W_fiscal, W_nf})}
        plain == nums \ (asPedido \cup asNota)
        unset == {i \in plain : \A j \in asPedido \cup plain : i <= j}
    IN  MapOf(WordOfFirst(entities, orgs),
              IF asPedido # {} THEN WordOfLast(entities, asPedido)
              ELSE WordOfFirst(entities, unset),
              WordOfLast(entities, asNota))

\* C25: when the secondary pipeline returned spans, the entity map has under
\* distribuidor the first span tagged as an organization, under pedido the last
\* numeric span with a digit that has pedido or order before it, under nota_fiscal
\* the last numeric span with a digit that has nota, fiscal or nf and neither pedido
\* nor order before it, and, when no span has pedido or order before it, under
\* pedido the first numeric span without a keyword: a later one does not replace it;
\* a map left empty gives the heuristic result
C25_SecondaryTier ==
    TierReturned("secondary") =>
        LET expected == SecondaryExpected(lastCall.out.entities, lastCall.text)
        IN  lastCall.result = IF expected = EmptyMap THEN fallback_extraction(lastCall.text)
                              ELSE expected

\* two organizations, then a number before any keyword, then a number after both
\* keywords: the first organization, and the later number as pedido
C25_Witness ==
    /\ TierReturned("secondary")
    /\ lastCall.text = T_spans_pedido
    /\ Len(lastCall.out.entities) = 3
    /\ lastCall.out.entities[1].entity = B_ORG
    /\ lastCall.out.entities[1].word = <<"7">>
    /\ lastCall.out.entities[2].entity = B_ORG
    /\ lastCall.out.entities[3].entity = B_CARDINAL
    /\ lastCall.out.entities[3].word = <<"5">>
    /\ lastCall.result = [distribuidor |-> <<"7">>, pedido |-> <<"5">>]

\* the label, in upper case, has one of the words
LabelHas(span, words) == \E w \in words : Contains(upper(span.entity_group), w)

HasDigit(word) == \E c \in 1..Len(word) : word[c] \in Digits

\* what C26 says the primary tier makes of the spans
PrimaryExpected(entities) ==
    LET orgs == {i \in 1..Len(entities) :
                    LabelHas(entities[i], {L_DISTRIBUIDOR, L_ORG, L_ORGANIZATION})}
        pedidos == {i \in 1..Len(entities) \ orgs :
                       LabelHas(entities[i], {L_PEDIDO, L_ORDER})}
        notas == {i \in 1..Len(entities) \ (orgs \cup pedidos) :
                     LabelHas(entities[i], {L_NOTA, L_FISCAL, L_INVOICE})}
    IN  MapOf(WordOfLast(entities, orgs),
              WordOfLast(entities, {i \in pedidos : HasDigit(entities[i].word)}),
              WordOfLast(entities, {i \in notas : HasDigit(entities[i].word)}))

\* C26: when the primary pipeline returned spans, the entity map has under
\* distribuidor the last span whose label, letter case aside, contains DISTRIBUIDOR,
\* ORG or ORGANIZATION, under pedido the last span with a digit whose label contains
\* PEDIDO or ORDER, under nota_fiscal the last span with a digit whose label
\* contains NOTA, FISCAL or INVOICE, and nothing from a span with another label or
\* without a digit; a map left empty gives the heuristic result
C26_PrimaryTier ==
    TierReturned("primary") =>
        LET expected == PrimaryExpected(lastCall.out.entities)
        IN  lastCall.result = IF expected = EmptyMap THEN fallback_extraction(lastCall.text)
                              ELSE expected

\* a lower-case order label on a number, an organization label in mixed case, and
\* an invoice label on a word without a digit: pedido and distribuidor only
C26_Witness ==
    /\ TierReturned("primary")
    /\ lastCall.text = T_spans_nf
    /\ Len(lastCall.out.entities) = 3
    /\ lastCall.out.entities[1].entity_group = <<"B", "-", "O", "r", "g">>
    /\ lastCall.out.entities[2].entity_group = <<"o", "r", "d", "e", "r">>
    /\ lastCall.out.entities[2].word = <<"7">>
    /\ lastCall.out.entities[3].entity_group = <<"I", "n", "v", "o", "i", "c", "e">>
    /\ lastCall.out.entities[3].word = <<"o", "k">>
    /\ lastCall.result = [distribuidor |-> <<"G", "o", "l", "d", "e", "n">>, pedido |-> <<"7">>]

\* the context read at the start of caller p's turn has a distribuidor that is
\* not supported
StaleUnsupported(p) ==
    /\ Truthy(Get(ContextBefore(p), "distribuidor"))
    /\ ~is_distribuidor_suportado(Get(ContextBefore(p), "distribuidor"))

\* the text of caller p's turn yielded this kind of distribuidor
YieldsNoDistribuidor(p) == ~Truthy(Get(req[p].extracted, "distribuidor"))

YieldsSupported(p) ==
    /\ Truthy(Get(req[p].extracted, "distribuidor"))
    /\ is_distribuidor_suportado(Get(req[p].extracted, "distribuidor"))

\* C27: an answered turn with the unsupported outcome leaves its distribuidor in the
\* stored context; a context with an unsupported distribuidor comes from a turn of
\* the history that was declined for it; an answered turn that reads such a context
\* and whose text yields no distribuidor is declined for the same distribuidor,
\* whatever pedido or nota_fiscal it has; one whose text yields a supported
\* distribuidor is not declined and leaves the supported distribuidor in the context
C27_UnsupportedSticks ==
    \A p \in Callers :
        Answered(p) =>
            /\ "unsupported" \in OutcomesOf(RetResponse(p)) =>
                  /\ ~is_distribuidor_suportado(RetResponse(p).distribuidor)
                  /\ Get(store[req[p].session_id].context, "distribuidor") =
                        RetResponse(p).distribuidor
            /\ StaleUnsupported(p) =>
                  \E i \in 1..Len(HistoryBefore(p)) :
                      HistoryBefore(p)[i].response =
                          UnsupportedText(ContextBefore(p).distribuidor)
            /\ StaleUnsupported(p) /\ YieldsNoDistribuidor(p) =>
                  /\ OutcomesOf(RetResponse(p)) = {"unsupported"}
                  /\ RetResponse(p).response_text =
                        UnsupportedText(ContextBefore(p).distribuidor)
                  /\ RetResponse(p).pedido = MergedValue(req[p], "pedido")
                  /\ RetResponse(p).nota_fiscal = MergedValue(req[p], "nota_fiscal")
            /\ StaleUnsupported(p) /\ YieldsSupported(p) =>
                  /\ "unsupported" \notin OutcomesOf(RetResponse(p))
                  /\ Get(store[req[p].session_id].context, "distribuidor") =
                        req[p].extracted.distribuidor

\* after alcateia was declined, a turn that gives only pedido 12 is declined as well
C27_Witness ==
    \E p \in Callers :
        /\ Answered(p)
        /\ StaleUnsupported(p)
        /\ req[p].query_text = T_pedido
        /\ req[p].extracted = [pedido |-> <<"1", "2">>]
        /\ RetResponse(p).response_text =
              UnsupportedText(<<"a", "l", "c", "a", "t", "e", "i", "a">>)
        /\ RetResponse(p).pedido = <<"1", "2">>
        /\ store[req[p].session_id].context.distribuidor =
              <<"a", "l", "c", "a", "t", "e", "i", "a">>

\* the text of caller p's turn yielded a nota_fiscal only, and the context the turn
\* read holds a pedido and a supported distribuidor
NotaOnPedidoContext(p) ==
    /\ Answered(p)
    /\ OnlyKeys(req[p].extracted, {"nota_fiscal"})
    /\ Truthy(Get(req[p].context, "pedido"))
    /\ Truthy(Get(req[p].context, "distribuidor"))
    /\ is_distribuidor_suportado(Get(req[p].context, "distribuidor"))

\* C28: a turn whose text yields only a nota_fiscal, on a context that holds a
\* pedido and a supported distribuidor, is resolved; its query has the context's
\* pedido and the turn's nota_fiscal, and the response text is the one about the
\* pedido of the context: it does not mention the nota_fiscal
C28_PedidoOfContextAnswered ==
    \A p \in Callers :
        NotaOnPedidoContext(p) =>
            /\ RetResponse(p).status = StatusResolved
            /\ RetResponse(p).data = MockData
            /\ RetQuery(p).pedido = req[p].context.pedido
            /\ RetQuery(p).nota_fiscal = req[p].extracted.nota_fiscal
            /\ RetResponse(p).pedido = req[p].context.pedido
            /\ RetResponse(p).nota_fiscal = req[p].extracted.nota_fiscal
            /\ RetResponse(p).response_text =
                  <<"O pedido ">> \o req[p].context.pedido \o <<" do distribuidor ">>
                  \o req[p].context.distribuidor
                  \o <<" esta em processamento. A previsao de entrega e para 5 dias uteis.">>
            /\ ~Contains(RetResponse(p).response_text, <<"A nota fiscal ">>)

\* after Officer pedido 112233, the turn nf 7 is answered about pedido 112233
C28_Witness ==
    \E p \in Callers :
        /\ NotaOnPedidoContext(p)
        /\ req[p].query_text = T_nf
        /\ req[p].context.pedido = <<"1", "1", "2", "2", "3", "3">>
        /\ RetQuery(p).nota_fiscal = <<"7">>
        /\ RetQuery(p).pedido = <<"1", "1", "2", "2", "3", "3">>
        /\ store[req[p].session_id].context.nota_fiscal = <<"7">>

\* process_query of caller p has returned the error outcome
Failed(p) == Returned(p) /\ RetResponse(p).status = StatusError

\* the entry an error turn leaves: its text, the error message, no entities
ErrorEntry(p) ==
    [query |-> req[p].query_text,
     response |-> ErrorMessage(req[p].raised),
     entities |-> EmptyMap]

\* C29: a turn that ends in error leaves every stored context as it was when the
\* turn started, the context of its own session included, even when its text gave
\* values; the query it is recorded with has no entities and no value; the history
\* of its session is as it was or has the error entry as its one new entry, and no
\* session is removed
C29_ErrorLeavesContext ==
    \A p \in Callers :
        Failed(p) =>
            /\ RetQuery(p).entities = EmptyMap
            /\ \A key \in KeySet : RetQuery(p)[key] = NoneVal
            /\ DOMAIN req[p].before \subseteq DOMAIN store
            /\ \A sid \in DOMAIN store :
                  /\ store[sid].context =
                        IF sid \in DOMAIN req[p].before THEN req[p].before[sid].context
                        ELSE EmptyMap
                  /\ sid # req[p].session_id /\ sid \in DOMAIN req[p].before =>
                        store[sid] = req[p].before[sid]
            /\ req[p].session_id \in DOMAIN store =>
                  store[req[p].session_id].history
                      \in {HistoryBefore(p), Append(HistoryBefore(p), ErrorEntry(p))}

\* the text gave Officer and pedido 112233 to a session that knew neither, the
\* append of the answer failed, and the error entry is the only thing recorded
C29_Witness ==
    \E p \in Callers :
        /\ Failed(p)
        /\ req[p].query_text = T_officer_pedido
        /\ Get(req[p].extracted, "pedido") = <<"1", "1", "2", "2", "3", "3">>
        /\ req[p].session_id \in DOMAIN store
        /\ store[req[p].session_id].history = Append(HistoryBefore(p), ErrorEntry(p))
        /\ store[req[p].session_id].context = EmptyMap
        /\ Len(HistoryBefore(p)) > 0

\* the names of n that are whole words, and the one of them that C30 says is taken:
\* the one whose name is first in the list, the leftmost when the name occurs twice
WholeNames(n) == {k \in 1..Len(n.names) : n.names[k].whole > 0}

ListFirst(n) ==
    CHOOSE k \in WholeNames(n) :
        \A j \in WholeNames(n) :
            \/ n.names[k].whole < n.names[j].whole
            \/ n.names[k].whole = n.names[j].whole /\ k <= j

\* the name at index i of the list is a supported distribuidor
SupportedInList(i) == is_distribuidor_suportado(distribuidores_conhecidos[i])

\* C30: when the heuristic extractor runs on a text with known names, the
\* distribuidor is the whole-word name that is first in the list officer, ingram,
\* golden, alcateia, network1, n1, as the text writes it, wherever it stands in the
\* text; a supported whole-word name therefore wins over an unsupported one; a name
\* that is only part of a longer word is passed over, and a text with no whole-word
\* name gives no distribuidor
C30_ListOrderWins ==
    calls > 0 /\ HeuristicRan =>
        \A n \in NameTexts :
            lastCall.text = n.text =>
                IF WholeNames(n) = {}
                THEN "distribuidor" \notin DOMAIN lastCall.result
                ELSE /\ Get(lastCall.result, "distribuidor") = n.names[ListFirst(n)].written
                     /\ (\E k \in WholeNames(n) : SupportedInList(n.names[k].whole)) =>
                            is_distribuidor_suportado(lastCall.result.distribuidor)

\* 'alcateia e GOLDEN': the supported name, second in the text, is the distribuidor
C30_Witness ==
    /\ calls > 0
    /\ HeuristicRan
    /\ lastCall.text = <<"a", "l", "c", "a", "t", "e", "i", "a", " ", "e", " ",
                         "G", "O", "L", "D", "E", "N">>
    /\ lastCall.result = [distribuidor |-> <<"G", "O", "L", "D", "E", "N">>]

====
